---- MODULE Spec2Model ----
(***************************************************************************)
(* Model of the apprenticeship case-file tracker: the in-memory entity     *)
(* store (MemStorage), the HTTP route handlers that drive it, the OCR      *)
(* extraction service and the client-side direct-upload workflow.          *)
(*                                                                         *)
(* Each route handler is an operator from a store value to a store value   *)
(* plus an HTTP status; one action per request commits the result and      *)
(* records the request and its response in `last`.                         *)
(*                                                                         *)
(* Timestamps (new Date().toISOString()) are read from the clock `now`,    *)
(* which has millisecond resolution: several requests can be served at the *)
(* same value of `now`.  The clock is taken to be non-decreasing.          *)
(* Free-text fields that no handler branches on (names of documents,       *)
(* activity descriptions, e-mail, phone, contract metadata) are left out   *)
(* of the records.                                                         *)
(***************************************************************************)
EXTENDS Integers, Sequences, FiniteSets, TLC

\* ------------------------------------------------------------------ bounds
\* the pipeline specification (Spec)
MaxFiles == 1
MaxActivities == 2
\* the ingestion specifications (SpecIngest, SpecRepeat, SpecDirect, SpecDetails)
MaxApprentices == 1
MaxIngestFiles == 1
\* one upload at a time (SpecIngest)
MaxUploads == 1
MaxIngestActivities == 3
\* the same upload repeated (SpecRepeat)
MaxRepeatUploads == 2
MaxRepeatActivities == 5
\* direct uploads (SpecDirect)
MaxDirectUploads == 2
\* joined reads (SpecDetails)
MaxCompanies == 1
MaxMentors == 1
MaxDetailFiles == 1
MaxDetailActivities == 1
\* creation after deletion (SpecIds)
MaxIdApprentices == 2
MaxIdFiles == 2
MaxIdActivities == 4
\* uploads in flight (SpecRace)
MaxRaceUploads == 2
MaxRaceActivities == 5
\* direct uploads step by step (SpecClient)
MaxClientUploads == 2
\* deletions (SpecDelete)
MaxDeleteRecords == 1
MaxDeleteActivities == 4
\* the clock
MaxExtractUploads == 2

MaxRemoveRecords == 1

MaxJoinComments == 2

MaxSettingsActivities == 2

MaxSteps == 5

MaxClock == 1

\* ------------------------------------------------------- values and inputs
\* undefined / null / absent property
Null == "<null>"
\* parseInt() of a non-numeric path or body parameter
NaN == -1
\* an absent numeric body parameter, and fileId: null of an Activity
NoId == 0

\* JavaScript truthiness of a string-or-absent value
Truthy(v) == v # Null /\ v # ""

pipelineStages == <<"REQUEST", "CREATED", "VERIFICATION", "PROCESSING", "VALIDATED">>

\* pipelineStages.includes(stage)
StageIncluded(stage) == \E i \in 1..Len(pipelineStages) : pipelineStages[i] = stage

\* stage values a client may send: the five tags, the tag the create-file
\* modal and the direct upload send, and no stage at all
StageInputs == {pipelineStages[i] : i \in 1..Len(pipelineStages)} \cup {"RECEPTION", Null}

PersonFields == {"firstName", "lastName", "birthDate", "address"}

\* request bodies of POST /api/apprentices
ApprenticeInputs ==
  { [firstName |-> "Alice", lastName |-> "", birthDate |-> Null, address |-> Null],
    [firstName |-> "Alice", lastName |-> "Martin", birthDate |-> "2000-01-01", address |-> "12 Rue de Paris"] }

NoData == [firstName |-> Null, lastName |-> Null, birthDate |-> Null, address |-> Null]

\* JSON objects the vision model may answer with
OcrData ==
  { [firstName |-> "BOB", lastName |-> "DUPONT", birthDate |-> "1999-12-31", address |-> "Other Address"],
    [firstName |-> Null, lastName |-> Null, birthDate |-> "", address |-> "Other Address"] }

\* extractIdCardInfo hands on whatever JSON object the model answered with.
\* An answer that puts the fields under a `data` property has none of them
\* at the top level
WrappedOcrData ==
  {[firstName |-> Null, lastName |-> Null, birthDate |-> Null, address |-> Null, data |-> d] :
     d \in OcrData}

\* what the call to the Mistral API does: an answer whose content parses to
\* an object, to null, does not parse, is missing, or a failed HTTP call
ApiOutcomes ==
  {[kind |-> "object", data |-> d] : d \in OcrData}
    \cup {[kind |-> k, data |-> NoData] : k \in {"null", "badjson", "nocontent", "neterror"}}

\* ------------------------------------------------------------------- state
VARIABLES
  users,                \* MemStorage.users : id -> User
  apprentices,          \* MemStorage.apprentices : id -> Apprentice
  companies,            \* MemStorage.companies : id -> Company
  mentors,              \* MemStorage.mentors : id -> Mentor
  files,                \* MemStorage.files : id -> File
  documents,            \* MemStorage.documents : id -> Document
  comments,             \* MemStorage.comments : id -> Comment
  activities,           \* MemStorage.activities, in insertion order
  currentUserId,
  currentApprenticeId,
  currentCompanyId,
  currentMentorId,
  currentFileId,
  currentDocumentId,
  currentCommentId,
  currentActivityId,
  uploads,              \* paths present in the uploads/ directory
  uploadSeq,            \* number of unique file names generated so far
  apiKey,               \* process.env.MISTRAL_API_KEY is set
  now,                  \* the clock, in milliseconds
  customPipeline,       \* the pipeline configuration held by the routes module
  inflight,             \* POST /api/documents handlers waiting for the extraction
  queries,              \* the client's cached lists of Apprentices and Case Files
  mutations,            \* uploadDirectDocument workflows under way
  pipelineSteps,        \* the step list of the settings page (its customPipeline)
  last                  \* the last request served and its response

storeVars == <<users, apprentices, companies, mentors, files, documents, comments, activities,
               currentUserId, currentApprenticeId, currentCompanyId, currentMentorId,
               currentFileId, currentDocumentId, currentCommentId, currentActivityId,
               uploads, uploadSeq>>
\* what the requests to the entity routes leave alone, apart from the clock
\* and the API key
clientVars == <<queries, mutations, pipelineSteps>>
sideVars == <<customPipeline, inflight, clientVars>>
vars == <<storeVars, apiKey, now, sideVars, last>>

\* the store as one value, threaded through the storage calls of a handler
Store ==
  [users |-> users, apprentices |-> apprentices, companies |-> companies, mentors |-> mentors,
   files |-> files, documents |-> documents, comments |-> comments,
   activities |-> activities, currentUserId |-> currentUserId,
   currentApprenticeId |-> currentApprenticeId,
   currentCompanyId |-> currentCompanyId, currentMentorId |-> currentMentorId,
   currentFileId |-> currentFileId, currentDocumentId |-> currentDocumentId,
   currentCommentId |-> currentCommentId,
   currentActivityId |-> currentActivityId, uploads |-> uploads, uploadSeq |-> uploadSeq]

Commit(st) ==
  /\ users' = st.users
  /\ apprentices' = st.apprentices
  /\ companies' = st.companies
  /\ mentors' = st.mentors
  /\ files' = st.files
  /\ documents' = st.documents
  /\ comments' = st.comments
  /\ activities' = st.activities
  /\ currentUserId' = st.currentUserId
  /\ currentApprenticeId' = st.currentApprenticeId
  /\ currentCompanyId' = st.currentCompanyId
  /\ currentMentorId' = st.currentMentorId
  /\ currentFileId' = st.currentFileId
  /\ currentDocumentId' = st.currentDocumentId
  /\ currentCommentId' = st.currentCommentId
  /\ currentActivityId' = st.currentActivityId
  /\ uploads' = st.uploads
  /\ uploadSeq' = st.uploadSeq

\* Map.set / Map.delete
MapSet(m, k, v) == [x \in (DOMAIN m) \cup {k} |-> IF x = k THEN v ELSE m[x]]
MapDelete(m, k) == [x \in (DOMAIN m) \ {k} |-> m[x]]
EmptyMap == [x \in {} |-> NoId]

\* -------------------------------------------------------------- MemStorage
\* this.activities.set(id, activity) with the counter left as it is
createActivity_KeepsCounter(st, fileId, activityType) ==
  LET activity == [id |-> st.currentActivityId, userId |-> 1, fileId |-> fileId,
                   activityType |-> activityType, createdAt |-> now]
  IN [st EXCEPT
        !.activities = IF \E i \in DOMAIN st.activities : st.activities[i].id = activity.id
                         THEN [i \in DOMAIN st.activities |->
                                 IF st.activities[i].id = activity.id THEN activity
                                 ELSE st.activities[i]]
                         ELSE Append(st.activities, activity)]

createActivity(st, fileId, activityType) ==
  [st EXCEPT
     !.activities = Append(@, [id |-> st.currentActivityId, userId |-> 1, fileId |-> fileId,
                               activityType |-> activityType, createdAt |-> now]),
     !.currentActivityId = @ + 1]

createApprentice(st, insertApprentice) ==
  LET id == st.currentApprenticeId
      apprentice == [id |-> id, createdAt |-> now,
                     firstName |-> insertApprentice.firstName,
                     lastName |-> insertApprentice.lastName,
                     birthDate |-> insertApprentice.birthDate,
                     address |-> insertApprentice.address]
  IN [st |-> [st EXCEPT !.apprentices = MapSet(@, id, apprentice),
                        !.currentApprenticeId = @ + 1],
      apprentice |-> apprentice]

updateApprentice_Replaces(st, id, partial) ==
  IF id \notin DOMAIN st.apprentices THEN [st |-> st, found |-> FALSE]
  ELSE LET existing == st.apprentices[id]
           updated == [f \in DOMAIN existing |->
                         IF f \in PersonFields THEN partial[f] ELSE existing[f]]
       IN [st |-> [st EXCEPT !.apprentices = MapSet(@, id, updated)], found |-> TRUE]

\* { ...existingApprentice, ...apprentice }: a field of the partial record
\* that is present replaces the stored one (Null stands for an absent key)
updateApprentice(st, id, partial) ==
  IF id \notin DOMAIN st.apprentices THEN [st |-> st, found |-> FALSE]
  ELSE LET existing == st.apprentices[id]
           updated == [f \in DOMAIN existing |->
                         IF f \in PersonFields /\ partial[f] # Null THEN partial[f]
                         ELSE existing[f]]
       IN [st |-> [st EXCEPT !.apprentices = MapSet(@, id, updated)], found |-> TRUE]

\* Map.get: undefined (`none`) for a key that is not there
MapGet(m, k, none) == IF k \in DOMAIN m THEN m[k] ELSE none

NoFile == [id |-> NoId, apprenticeId |-> NoId, companyId |-> NoId, mentorId |-> NoId,
           stage |-> Null, createdAt |-> 0, updatedAt |-> 0]
NoApprentice == [id |-> NoId, createdAt |-> 0, firstName |-> Null, lastName |-> Null,
                 birthDate |-> Null, address |-> Null]
NoCompany == [id |-> NoId, createdAt |-> 0]
NoMentor == [id |-> NoId, createdAt |-> 0, firstName |-> Null, lastName |-> Null,
             birthDate |-> Null, address |-> Null]

createCompany(st, insertCompany) ==
  LET id == st.currentCompanyId
      company == [id |-> id, createdAt |-> now]
  IN [st |-> [st EXCEPT !.companies = MapSet(@, id, company), !.currentCompanyId = @ + 1],
      company |-> company]

createMentor(st, insertMentor) ==
  LET id == st.currentMentorId
      mentor == [id |-> id, createdAt |-> now, firstName |-> insertMentor.firstName,
                 lastName |-> insertMentor.lastName, birthDate |-> Null, address |-> Null]
  IN [st |-> [st EXCEPT !.mentors = MapSet(@, id, mentor), !.currentMentorId = @ + 1],
      mentor |-> mentor]

getFile(st, id) == MapGet(st.files, id, NoFile)

\* .map(x => { const user = this.users.get(x.userId); if (!user) throw ... }):
\* the join of a set of Comments or Activities with their users throws when
\* one of them names a user the store does not hold
JoinThrows(st, records) == \E x \in records : x.userId \notin DOMAIN st.users

WithUser(st, x) == [record |-> x, user |-> st.users[x.userId]]

getCommentsByFile(st, fileId) ==
  LET own == {st.comments[c] : c \in {x \in DOMAIN st.comments : st.comments[x].fileId = fileId}}
  IN IF JoinThrows(st, own) THEN [threw |-> TRUE, rows |-> {}]
     ELSE [threw |-> FALSE, rows |-> {WithUser(st, x) : x \in own}]

NoDetails == [found |-> FALSE, threw |-> FALSE]
\* the join of the comments of the Case File with their users threw
DetailsThrew == [found |-> FALSE, threw |-> TRUE]

\* the joined read with the Mentor left out of the test of the references
getFileDetails_IgnoresMentor(st, id) ==
  LET file == MapGet(st.files, id, NoFile)
      apprentice == MapGet(st.apprentices, file.apprenticeId, NoApprentice)
      company == MapGet(st.companies, file.companyId, NoCompany)
      mentor == MapGet(st.mentors, file.mentorId, NoMentor)
  IN IF file = NoFile THEN NoDetails
     ELSE IF apprentice = NoApprentice \/ company = NoCompany THEN NoDetails
     ELSE IF getCommentsByFile(st, id).threw THEN DetailsThrew
     ELSE [found |-> TRUE, threw |-> FALSE, file |-> file, apprentice |-> apprentice,
           company |-> company, mentor |-> mentor,
           documents |-> {st.documents[d] : d \in {x \in DOMAIN st.documents :
                                                     st.documents[x].fileId = id}},
           comments |-> getCommentsByFile(st, id).rows]

\* the joined read: the Case File with its Apprentice, Company, Mentor,
\* Documents and Comments, each Comment with its user
getFileDetails(st, id) ==
  LET file == MapGet(st.files, id, NoFile)
      apprentice == MapGet(st.apprentices, file.apprenticeId, NoApprentice)
      company == MapGet(st.companies, file.companyId, NoCompany)
      mentor == MapGet(st.mentors, file.mentorId, NoMentor)
  IN IF file = NoFile THEN NoDetails
     ELSE IF apprentice = NoApprentice \/ company = NoCompany \/ mentor = NoMentor
       THEN NoDetails
     ELSE IF getCommentsByFile(st, id).threw THEN DetailsThrew
     ELSE [found |-> TRUE, threw |-> FALSE, file |-> file, apprentice |-> apprentice,
           company |-> company, mentor |-> mentor,
           documents |-> {st.documents[d] : d \in {x \in DOMAIN st.documents :
                                                     st.documents[x].fileId = id}},
           comments |-> getCommentsByFile(st, id).rows]

\* Map.delete
deleteApprentice(st, id) ==
  [st |-> [st EXCEPT !.apprentices = MapDelete(@, id)], success |-> id \in DOMAIN st.apprentices]

\* the id taken from the number of Case Files held instead of the counter
createFile_ReusesId(st, insertFile) ==
  LET id == Cardinality(DOMAIN st.files) + 1
      file == [id |-> id, apprenticeId |-> insertFile.apprenticeId,
               companyId |-> insertFile.companyId, mentorId |-> insertFile.mentorId,
               stage |-> insertFile.stage, createdAt |-> now, updatedAt |-> now]
  IN [st |-> [st EXCEPT !.files = MapSet(@, id, file), !.currentFileId = @ + 1],
      file |-> file]

createFile(st, insertFile) ==
  LET id == st.currentFileId
      file == [id |-> id, apprenticeId |-> insertFile.apprenticeId,
               companyId |-> insertFile.companyId, mentorId |-> insertFile.mentorId,
               stage |-> insertFile.stage, createdAt |-> now, updatedAt |-> now]
  IN [st |-> [st EXCEPT !.files = MapSet(@, id, file), !.currentFileId = @ + 1],
      file |-> file]

updateFile_KeepsUpdatedAt(st, id, partial) ==
  IF id \notin DOMAIN st.files THEN [st |-> st, found |-> FALSE, file |-> NoFile]
  ELSE LET existing == st.files[id]
           updated == [existing EXCEPT
                         !.apprenticeId = IF partial.apprenticeId # NoId THEN partial.apprenticeId ELSE @,
                         !.stage = IF partial.stage # Null THEN partial.stage ELSE @]
       IN [st |-> [st EXCEPT !.files = MapSet(@, id, updated)], found |-> TRUE, file |-> updated]

updateFile(st, id, partial) ==
  IF id \notin DOMAIN st.files THEN [st |-> st, found |-> FALSE, file |-> NoFile]
  ELSE LET existing == st.files[id]
           updated == [existing EXCEPT
                         !.apprenticeId = IF partial.apprenticeId # NoId THEN partial.apprenticeId ELSE @,
                         !.stage = IF partial.stage # Null THEN partial.stage ELSE @,
                         !.updatedAt = now]
       IN [st |-> [st EXCEPT !.files = MapSet(@, id, updated)], found |-> TRUE, file |-> updated]

updateFileStage_KeepsUpdatedAt(st, id, stage) ==
  IF id \notin DOMAIN st.files THEN [st |-> st, found |-> FALSE, file |-> NoFile]
  ELSE LET updated == [st.files[id] EXCEPT !.stage = stage]
       IN [st |-> [st EXCEPT !.files = MapSet(@, id, updated)], found |-> TRUE, file |-> updated]

updateFileStage(st, id, stage) ==
  IF id \notin DOMAIN st.files THEN [st |-> st, found |-> FALSE, file |-> NoFile]
  ELSE LET updated == [st.files[id] EXCEPT !.stage = stage, !.updatedAt = now]
       IN [st |-> [st EXCEPT !.files = MapSet(@, id, updated)], found |-> TRUE, file |-> updated]

\* the Case File removed together with the Documents and Comments that
\* refer to it
deleteFile_Cascades(st, id) ==
  [st |-> [st EXCEPT !.files = MapDelete(@, id),
                     !.documents = [d \in {x \in DOMAIN @ : @[x].fileId # id} |-> @[d]],
                     !.comments = [c \in {x \in DOMAIN @ : @[x].fileId # id} |-> @[c]]],
   success |-> id \in DOMAIN st.files]

deleteFile(st, id) ==
  [st |-> [st EXCEPT !.files = MapDelete(@, id)], success |-> id \in DOMAIN st.files]

\* { ...existingMentor, ...mentor }
updateMentor(st, id, partial) ==
  IF id \notin DOMAIN st.mentors THEN [st |-> st, found |-> FALSE]
  ELSE LET existing == st.mentors[id]
           updated == [f \in DOMAIN existing |->
                         IF f \in PersonFields /\ partial[f] # Null THEN partial[f]
                         ELSE existing[f]]
       IN [st |-> [st EXCEPT !.mentors = MapSet(@, id, updated)], found |-> TRUE]

createDocument(st, insertDocument) ==
  LET id == st.currentDocumentId
      document == [id |-> id, fileId |-> insertDocument.fileId, type |-> insertDocument.type,
                   path |-> insertDocument.path,
                   extractedData |-> insertDocument.extractedData, uploadedAt |-> now]
  IN [st |-> [st EXCEPT !.documents = MapSet(@, id, document), !.currentDocumentId = @ + 1],
      document |-> document]

\* the user the constructor adds: this.createUser({ username: "admin", ... })
AdminUser == [id |-> 1, username |-> "admin"]

createUser(st, insertUser) ==
  LET id == st.currentUserId
      user == [id |-> id, username |-> insertUser.username]
  IN [st |-> [st EXCEPT !.users = MapSet(@, id, user), !.currentUserId = @ + 1], user |-> user]

deleteCompany(st, id) ==
  [st |-> [st EXCEPT !.companies = MapDelete(@, id)], success |-> id \in DOMAIN st.companies]

deleteMentor(st, id) ==
  [st |-> [st EXCEPT !.mentors = MapDelete(@, id)], success |-> id \in DOMAIN st.mentors]

\* Document.extractedData: undefined
NotStored == [tag |-> "undefined", data |-> NoData, timestamp |-> 0]
NoDocument == [id |-> NoId, fileId |-> NoId, type |-> Null, path |-> 0,
               extractedData |-> NotStored, uploadedAt |-> 0]

getDocument(st, id) == MapGet(st.documents, id, NoDocument)

deleteDocument(st, id) ==
  [st |-> [st EXCEPT !.documents = MapDelete(@, id)], success |-> id \in DOMAIN st.documents]

NoComment == [id |-> NoId, fileId |-> NoId, userId |-> NoId, createdAt |-> 0]

getComment(st, id) == MapGet(st.comments, id, NoComment)

createComment(st, insertComment) ==
  LET id == st.currentCommentId
      comment == [id |-> id, fileId |-> insertComment.fileId, userId |-> insertComment.userId,
                  createdAt |-> now]
  IN [st |-> [st EXCEPT !.comments = MapSet(@, id, comment), !.currentCommentId = @ + 1],
      comment |-> comment]

deleteComment(st, id) ==
  [st |-> [st EXCEPT !.comments = MapDelete(@, id)], success |-> id \in DOMAIN st.comments]

\* createActivity with the userId the request body names
createActivityFor(st, userId, fileId, activityType) ==
  [st EXCEPT
     !.activities = Append(@, [id |-> st.currentActivityId, userId |-> userId, fileId |-> fileId,
                               activityType |-> activityType, createdAt |-> now]),
     !.currentActivityId = @ + 1]

\* .sort((a, b) => b.createdAt - a.createdAt): a stable sort, latest first
RECURSIVE sortLatestFirst(_)
sortLatestFirst(seq) ==
  IF seq = <<>> THEN <<>>
  ELSE LET i == CHOOSE i \in 1..Len(seq) :
                  /\ \A j \in 1..Len(seq) : seq[j].createdAt <= seq[i].createdAt
                  /\ \A j \in 1..(i - 1) : seq[j].createdAt < seq[i].createdAt
       IN <<seq[i]>> \o sortLatestFirst(SubSeq(seq, 1, i - 1) \o SubSeq(seq, i + 1, Len(seq)))

\* .slice(0, limit)
slice(seq, limit) == SubSeq(seq, 1, IF limit < Len(seq) THEN limit ELSE Len(seq))

Range(seq) == {seq[i] : i \in DOMAIN seq}

getActivities(st, limit) ==
  LET rows == slice(sortLatestFirst(st.activities), limit)
  IN IF JoinThrows(st, Range(rows)) THEN [threw |-> TRUE, rows |-> <<>>]
     ELSE [threw |-> FALSE, rows |-> [i \in DOMAIN rows |-> WithUser(st, rows[i])]]

getActivitiesByFile(st, fileId) ==
  LET rows == sortLatestFirst(SelectSeq(st.activities, LAMBDA a : a.fileId = fileId))
  IN IF JoinThrows(st, Range(rows)) THEN [threw |-> TRUE, rows |-> <<>>]
     ELSE [threw |-> FALSE, rows |-> [i \in DOMAIN rows |-> WithUser(st, rows[i])]]

\* 1000 * 60 * 60 * 24
DayMs == 86400000

\* Math.abs, Math.ceil(a / b) for a >= 0 and b > 0
Abs(x) == IF x < 0 THEN 0 - x ELSE x
Ceil(a, b) == (a + b - 1) \div b

\* a / b on numbers: the quotient as a fraction in lowest terms
RECURSIVE GCD(_, _)
GCD(a, b) == IF b = 0 THEN a ELSE GCD(b, a % b)
Quotient(a, b) == [num |-> a \div GCD(a, b), den |-> b \div GCD(a, b)]
Zero == [num |-> 0, den |-> 1]

\* the days between the creation and the last update of a Case File
diffDays_Floor(file) == Abs(file.updatedAt - file.createdAt) \div DayMs

diffDays(file) == Ceil(Abs(file.updatedAt - file.createdAt), DayMs)

\* allFiles.reduce(...): one bucket per stage value met, keyed by that value
filesByStage(st) ==
  [stage \in {st.files[f].stage : f \in DOMAIN st.files} |->
     Cardinality({f \in DOMAIN st.files : st.files[f].stage = stage})]

\* the loop over allFiles, in the order of the Map (ids f, f + 1, ...)
RECURSIVE processingLoop(_, _, _)
processingLoop(st, f, acc) ==
  IF f >= st.currentFileId THEN acc
  ELSE IF f \in DOMAIN st.files /\ st.files[f].stage = "VALIDATED"
    THEN processingLoop(st, f + 1, [totalDays |-> acc.totalDays + diffDays(st.files[f]),
                                    processedFiles |-> acc.processedFiles + 1])
  ELSE processingLoop(st, f + 1, acc)

getStats(st) ==
  LET loop == processingLoop(st, 1, [totalDays |-> 0, processedFiles |-> 0])
  IN [totalFiles |-> Cardinality(DOMAIN st.files),
      filesByStage |-> filesByStage(st),
      validatedFiles |-> Cardinality({f \in DOMAIN st.files : st.files[f].stage = "VALIDATED"}),
      averageProcessingTime |-> IF loop.processedFiles > 0
                                  THEN Quotient(loop.totalDays, loop.processedFiles)
                                  ELSE Zero]

\* useState<PipelineStep[]>([...]): the five steps the settings page opens with
DefaultSteps ==
  [i \in 1..Len(pipelineStages) |-> [id |-> i, key |-> pipelineStages[i], name |-> "default"]]

\* ------------------------------------------------------------------- Init
Init ==
  /\ users = MapSet(EmptyMap, 1, AdminUser)
  /\ apprentices = EmptyMap
  /\ companies = EmptyMap
  /\ mentors = EmptyMap
  /\ files = EmptyMap
  /\ documents = EmptyMap
  /\ comments = EmptyMap
  /\ activities = <<>>
  /\ currentUserId = 2
  /\ currentApprenticeId = 1
  /\ currentCompanyId = 1
  /\ currentMentorId = 1
  /\ currentFileId = 1
  /\ currentDocumentId = 1
  /\ currentCommentId = 1
  /\ currentActivityId = 1
  /\ uploads = {}
  /\ uploadSeq = 0
  /\ apiKey \in BOOLEAN
  /\ now = 0
  /\ customPipeline = [i \in 1..Len(pipelineStages) |->
                         [key |-> pipelineStages[i], name |-> pipelineStages[i]]]
  /\ inflight = {}
  /\ queries = [apprentices |-> EmptyMap, files |-> EmptyMap]
  /\ mutations = {}
  /\ pipelineSteps = DefaultSteps
  /\ last = [op |-> "none", status |-> 0]

\* a step that served a request `op`: requests are served at one reading of
\* the clock, and a step of the clock leaves `last` as it is
Served(op) == last'.op = op /\ now' = now

\* the clock advances
Tick ==
  /\ now < MaxClock
  /\ now' = now + 1
  /\ UNCHANGED <<storeVars, apiKey, sideVars, last>>

\* the server started without, and with, MISTRAL_API_KEY in its environment
InitWithoutKey == Init /\ ~apiKey
InitWithKey == Init /\ apiKey

\* ------------------------------------------------------------ file routes
\* request bodies of POST /api/files: the three references and a stage that
\* may be any string or absent; a body without apprenticeId fails the schema
FileInputs ==
  {[apprenticeId |-> 1, companyId |-> 1, mentorId |-> 1, stage |-> s] :
     s \in {"REQUEST", "RECEPTION", Null}}
    \cup {[apprenticeId |-> NoId, companyId |-> 1, mentorId |-> 1, stage |-> "REQUEST"]}

\* request bodies of PUT /api/files/:id (every key optional)
FilePartialInputs ==
  {[apprenticeId |-> NoId, stage |-> s] : s \in {Null, "VALIDATED", "RECEPTION"}}

\* ids a client may put in a path or a body: every id the store can hold,
\* one it never assigns, and a non-numeric one
IdInputs(max) == {NaN} \cup (1..(max + 1))

\* requests to PUT /api/files/:id/stage
StageRequests(max) ==
  {[fileId |-> i, stage |-> s] : i \in 1..(max + 1), s \in StageInputs}
    \cup {[fileId |-> NaN, stage |-> "VALIDATED"]}

\* insertFileSchema.parse(body): the three references are required
\* integers; stage is an optional string with no further constraint
insertFileSchemaAccepts(body) ==
  body.apprenticeId # NoId /\ body.companyId # NoId /\ body.mentorId # NoId

PostFiles(st, body) ==
  IF ~insertFileSchemaAccepts(body) THEN [st |-> st, status |-> 400, file |-> NoFile]
  ELSE LET c == createFile(st, body)
       IN [st |-> createActivity(c.st, c.file.id, "CREATE"), status |-> 201, file |-> c.file]

PutFile(st, fileId, body) ==
  IF fileId = NaN THEN [st |-> st, status |-> 400, file |-> NoFile]
  ELSE LET u == updateFile(st, fileId, body)
       IN IF ~u.found THEN [st |-> st, status |-> 404, file |-> NoFile]
          ELSE [st |-> createActivity(u.st, u.file.id, "UPDATE"), status |-> 200, file |-> u.file]

\* !stage || !pipelineStages.includes(stage)
StageRejected_OnlyMissing(stage) == ~Truthy(stage)

StageRejected_ByCustomPipeline(stage) ==
  ~Truthy(stage) \/ ~\E i \in 1..Len(customPipeline) : customPipeline[i].key = stage

StageRejected(stage) == ~Truthy(stage) \/ ~StageIncluded(stage)

PutFileStage_LogsBeforeLookup(st, fileId, stage) ==
  IF fileId = NaN THEN [st |-> st, status |-> 400, file |-> NoFile]
  ELSE IF StageRejected(stage) THEN [st |-> st, status |-> 400, file |-> NoFile]
  ELSE LET u == updateFileStage(st, fileId, stage)
           logged == createActivity(u.st, fileId, "STAGE_CHANGE")
       IN IF ~u.found THEN [st |-> logged, status |-> 404, file |-> NoFile]
          ELSE [st |-> logged, status |-> 200, file |-> u.file]

PutFileStage(st, fileId, stage) ==
  IF fileId = NaN THEN [st |-> st, status |-> 400, file |-> NoFile]
  ELSE IF StageRejected(stage) THEN [st |-> st, status |-> 400, file |-> NoFile]
  ELSE LET u == updateFileStage(st, fileId, stage)
       IN IF ~u.found THEN [st |-> st, status |-> 404, file |-> NoFile]
          ELSE [st |-> createActivity(u.st, u.file.id, "STAGE_CHANGE"),
                status |-> 200, file |-> u.file]

DeleteFileRoute(st, fileId) ==
  IF fileId = NaN THEN [st |-> st, status |-> 400]
  ELSE LET d == deleteFile(st, fileId)
       IN IF ~d.success THEN [st |-> st, status |-> 404]
          ELSE [st |-> createActivity(d.st, fileId, "DELETE"), status |-> 204]

PostApprentices(st, body) ==
  LET c == createApprentice(st, body)
  IN [st |-> c.st, status |-> 201, apprentice |-> c.apprentice]

PostCompanies(st, body) ==
  LET c == createCompany(st, body)
  IN [st |-> c.st, status |-> 201, company |-> c.company]

PostMentors(st, body) ==
  LET c == createMentor(st, body)
  IN [st |-> c.st, status |-> 201, mentor |-> c.mentor]

\* GET /api/files/:id
GetFileRoute(st, fileId) ==
  IF fileId = NaN THEN [status |-> 400, file |-> NoFile]
  ELSE IF getFile(st, fileId) = NoFile THEN [status |-> 404, file |-> NoFile]
  ELSE [status |-> 200, file |-> getFile(st, fileId)]

\* the handler threw outside any try block: no answer is sent
NoAnswer == 0

\* GET /api/files/:id/details
GetFileDetailsRoute(st, fileId) ==
  IF fileId = NaN THEN [status |-> 400, details |-> NoDetails]
  ELSE IF getFileDetails(st, fileId).threw THEN [status |-> NoAnswer, details |-> DetailsThrew]
  ELSE IF ~getFileDetails(st, fileId).found THEN [status |-> 404, details |-> NoDetails]
  ELSE [status |-> 200, details |-> getFileDetails(st, fileId)]

\* DELETE /api/apprentices/:id
DeleteApprenticeRoute(st, apprenticeId) ==
  IF apprenticeId = NaN THEN [st |-> st, status |-> 400]
  ELSE LET d == deleteApprentice(st, apprenticeId)
       IN IF ~d.success THEN [st |-> st, status |-> 404]
          ELSE [st |-> d.st, status |-> 204]

\* POST /api/users
PostUsers(st, body) ==
  LET c == createUser(st, body)
  IN [st |-> c.st, status |-> 201, user |-> c.user]

\* DELETE /api/companies/:id
DeleteCompanyRoute(st, companyId) ==
  IF companyId = NaN THEN [st |-> st, status |-> 400]
  ELSE LET d == deleteCompany(st, companyId)
       IN IF ~d.success THEN [st |-> st, status |-> 404]
          ELSE [st |-> d.st, status |-> 204]

\* DELETE /api/mentors/:id
DeleteMentorRoute(st, mentorId) ==
  IF mentorId = NaN THEN [st |-> st, status |-> 400]
  ELSE LET d == deleteMentor(st, mentorId)
       IN IF ~d.success THEN [st |-> st, status |-> 404]
          ELSE [st |-> d.st, status |-> 204]

\* DELETE /api/documents/:id: the bytes are removed from uploads/, then
\* the record, and one DOCUMENT_DELETE Activity is appended for its Case File
DeleteDocumentRoute_LogsDocumentId(st, documentId) ==
  IF documentId = NaN THEN [st |-> st, status |-> 400]
  ELSE IF getDocument(st, documentId) = NoDocument THEN [st |-> st, status |-> 404]
  ELSE LET document == getDocument(st, documentId)
           unlinked == [st EXCEPT !.uploads = @ \ {document.path}]
           d == deleteDocument(unlinked, documentId)
       IN IF ~d.success THEN [st |-> unlinked, status |-> 500]
          ELSE [st |-> createActivity(d.st, documentId, "DOCUMENT_DELETE"), status |-> 204]

DeleteDocumentRoute(st, documentId) ==
  IF documentId = NaN THEN [st |-> st, status |-> 400]
  ELSE IF getDocument(st, documentId) = NoDocument THEN [st |-> st, status |-> 404]
  ELSE LET document == getDocument(st, documentId)
           unlinked == [st EXCEPT !.uploads = @ \ {document.path}]
           d == deleteDocument(unlinked, documentId)
       IN IF ~d.success THEN [st |-> unlinked, status |-> 500]
          ELSE [st |-> createActivity(d.st, document.fileId, "DOCUMENT_DELETE"), status |-> 204]

\* insertCommentSchema.parse(body): fileId and userId are required integers
insertCommentSchemaAccepts(body) == body.fileId # NoId /\ body.userId # NoId

\* POST /api/comments
PostComments(st, body) ==
  IF ~insertCommentSchemaAccepts(body) THEN [st |-> st, status |-> 400, comment |-> NoComment]
  ELSE LET c == createComment(st, body)
       IN [st |-> createActivityFor(c.st, body.userId, body.fileId, "COMMENT"),
           status |-> 201, comment |-> c.comment]

\* DELETE /api/comments/:id
DeleteCommentRoute(st, commentId) ==
  IF commentId = NaN THEN [st |-> st, status |-> 400]
  ELSE IF getComment(st, commentId) = NoComment THEN [st |-> st, status |-> 404]
  ELSE LET comment == getComment(st, commentId)
           d == deleteComment(st, commentId)
       IN IF ~d.success THEN [st |-> st, status |-> 500]
          ELSE [st |-> createActivity(d.st, comment.fileId, "COMMENT_DELETE"), status |-> 204]

\* GET /api/files/:fileId/comments
GetCommentsRoute(st, fileId) ==
  IF fileId = NaN THEN [status |-> 400, threw |-> FALSE]
  ELSE IF getCommentsByFile(st, fileId).threw THEN [status |-> NoAnswer, threw |-> TRUE]
  ELSE [status |-> 200, threw |-> FALSE]

\* GET /api/activities: ten rows when the query names no limit
GetActivitiesRoute(st, limit) ==
  IF getActivities(st, IF limit = NoId THEN 10 ELSE limit).threw
    THEN [status |-> NoAnswer, threw |-> TRUE]
  ELSE [status |-> 200, threw |-> FALSE]

\* GET /api/files/:fileId/activities
GetFileActivitiesRoute(st, fileId) ==
  IF fileId = NaN THEN [status |-> 400, threw |-> FALSE]
  ELSE IF getActivitiesByFile(st, fileId).threw THEN [status |-> NoAnswer, threw |-> TRUE]
  ELSE [status |-> 200, threw |-> FALSE]

\* GET /api/settings
GetSettingsRoute(pipeline) == [status |-> 200, pipeline |-> pipeline]

\* PUT /api/settings/pipeline: `stages` must be a non-empty array whose
\* elements all have a key and a name; it then replaces the configuration
PutSettingsPipeline(pipeline, body) ==
  IF body.kind # "array" THEN [pipeline |-> pipeline, status |-> 400]
  ELSE IF Len(body.stages) = 0 THEN [pipeline |-> pipeline, status |-> 400]
  ELSE IF \E i \in 1..Len(body.stages) :
            ~Truthy(body.stages[i].key) \/ ~Truthy(body.stages[i].name)
         THEN [pipeline |-> pipeline, status |-> 400]
  ELSE [pipeline |-> body.stages, status |-> 200]

\* PUT /api/apprentices/:id: no Activity is appended
PutApprentice(st, apprenticeId, body) ==
  IF apprenticeId = NaN THEN [st |-> st, status |-> 400]
  ELSE LET u == updateApprentice(st, apprenticeId, body)
       IN IF ~u.found THEN [st |-> st, status |-> 404]
          ELSE [st |-> u.st, status |-> 200]

\* ------------------------------------------------------ OCR and ingestion
\* extractIdCardInfo: the result of the service for what the API call did
extractIdCardInfo(api) ==
  CASE api.kind = "object" -> [called |-> TRUE, success |-> TRUE, hasData |-> TRUE, data |-> api.data]
    [] api.kind = "null" -> [called |-> TRUE, success |-> TRUE, hasData |-> FALSE, data |-> NoData]
    [] OTHER -> [called |-> TRUE, success |-> FALSE, hasData |-> FALSE, data |-> NoData]

\* no call was made
NotCalled == [called |-> FALSE, success |-> FALSE, hasData |-> FALSE, data |-> NoData]

\* what a handler meets when it reads the uploaded file back and calls the
\* API; NoEnv when it does neither
NoEnv == [readThrows |-> FALSE, api |-> [kind |-> "none", data |-> NoData]]
Envs(consulted) ==
  IF consulted
    THEN {[readThrows |-> FALSE, api |-> a] : a \in ApiOutcomes}
           \cup {[readThrows |-> TRUE, api |-> NoEnv.api]}
    ELSE {NoEnv}

\* upload.single("file"): the bytes are written under a fresh name in
\* uploads/ before the handler runs
multerStore(st) ==
  [st EXCEPT !.uploads = @ \cup {st.uploadSeq + 1}, !.uploadSeq = @ + 1]

\* the fields copied into the Apprentice: those the extraction has and the
\* Apprentice lacks (Null: the key is not in the update)
apprenticeUpdate_Overwrites(apprentice, data) ==
  [f \in PersonFields |-> IF Truthy(data[f]) THEN data[f] ELSE Null]

apprenticeUpdate(apprentice, data) ==
  [f \in PersonFields |->
     IF Truthy(data[f]) /\ ~Truthy(apprentice[f]) THEN data[f] ELSE Null]

\* Object.keys(apprenticeUpdate).length > 0
HasKeys_Always(update) == TRUE

HasKeys(update) == \E f \in DOMAIN update : update[f] # Null

\* values of Document.extractedData
Serialized(data) == [tag |-> "data", data |-> data, timestamp |-> 0]
NotExtracted == [tag |-> "not_extracted", data |-> NoData, timestamp |-> now]

IdentityTypes == {"ID_CARD", "PASSPORT"}

\* shouldExtractData && (documentType === "ID_CARD" || documentType === "PASSPORT")
OcrEligible_AnyType(req) == req.extractData

OcrEligible(req) == req.extractData /\ req.type \in IdentityTypes

\* the body of the OCR block of POST /api/documents: the store after the
\* fill-if-blank update, whether extractedData was set, the result of the
\* service, and whether an exception was thrown (fs.readFileSync)
OcrTry(st, file, req, env) ==
  IF ~OcrEligible(req) \/ ~apiKey
    THEN [st |-> st, extracted |-> FALSE, ocr |-> NotCalled, thrown |-> FALSE]
  ELSE IF env.readThrows
    THEN [st |-> st, extracted |-> FALSE, ocr |-> NotCalled, thrown |-> TRUE]
  ELSE LET ocr == extractIdCardInfo(env.api)
       IN IF ~(ocr.success /\ ocr.hasData)
            THEN [st |-> st, extracted |-> FALSE, ocr |-> ocr, thrown |-> FALSE]
          ELSE IF file.apprenticeId = NoId \/ file.apprenticeId \notin DOMAIN st.apprentices
            THEN [st |-> st, extracted |-> TRUE, ocr |-> ocr, thrown |-> FALSE]
          ELSE LET update == apprenticeUpdate(st.apprentices[file.apprenticeId], ocr.data)
               IN IF ~HasKeys(update)
                    THEN [st |-> st, extracted |-> TRUE, ocr |-> ocr, thrown |-> FALSE]
                  ELSE [st |-> createActivity(updateApprentice(st, file.apprenticeId, update).st,
                                              req.fileId, "OCR_UPDATE"),
                        extracted |-> TRUE, ocr |-> ocr, thrown |-> FALSE]

\* try { ... } catch (error) { console.error(...) }: nothing leaves the block
OcrBlock_NoCatch(st, file, req, env) == OcrTry(st, file, req, env)

OcrBlock(st, file, req, env) == [OcrTry(st, file, req, env) EXCEPT !.thrown = FALSE]

documentData(req, path, block) ==
  [fileId |-> req.fileId, type |-> req.type, path |-> path,
   extractedData |-> IF block.extracted THEN Serialized(block.ocr.data)
                     ELSE IF req.extractData THEN NotExtracted
                     ELSE NotStored]

\* POST /api/documents (Mode A)
PostDocuments(st0, req, env) ==
  IF ~req.hasFile
    THEN [st |-> st0, status |-> 400, ocr |-> NotCalled, document |-> NoDocument]
  ELSE LET st1 == multerStore(st0)
           path == st1.uploadSeq
       IN IF req.fileId = NaN
            THEN [st |-> st1, status |-> 400, ocr |-> NotCalled, document |-> NoDocument]
          ELSE IF req.fileId \notin DOMAIN st1.files
            THEN [st |-> st1, status |-> 404, ocr |-> NotCalled, document |-> NoDocument]
          ELSE LET block == OcrBlock(st1, st1.files[req.fileId], req, env)
                   c == createDocument(block.st, documentData(req, path, block))
               IN IF block.thrown
                    THEN [st |-> block.st, status |-> 500, ocr |-> block.ocr,
                          document |-> NoDocument]
                  ELSE [st |-> createActivity(c.st, req.fileId, "DOCUMENT_UPLOAD"),
                        status |-> 201, ocr |-> block.ocr, document |-> c.document]

\* POST /api/documents gives up control once, at `await extractIdCardInfo`:
\* the storage calls it awaits before and after resolve without any I/O, so
\* the handlers of other requests run only while the extraction call is in
\* flight.  The handler reaches the call when the upload names a Case File
\* of the store, is eligible, the key is set and the bytes were read back.
reachesExtraction(st, req, env) ==
  /\ req.hasFile
  /\ req.fileId # NaN
  /\ req.fileId \in DOMAIN st.files
  /\ OcrEligible(req)
  /\ apiKey
  /\ ~env.readThrows

\* what the handler holds while it waits: the request, the path of the
\* upload and the Case File it read (`const file`); `apprentice` is the
\* Apprentice of that Case File at that time, which the handler does not read
suspended(st, req) ==
  [req |-> req, path |-> st.uploadSeq, file |-> st.files[req.fileId],
   apprentice |-> MapGet(st.apprentices, st.files[req.fileId].apprenticeId, NoApprentice)]

\* the rest of the handler with the Apprentice read before the call
resumeBlock_StaleApprentice(st, p, api) ==
  LET ocr == extractIdCardInfo(api)
      update == apprenticeUpdate(p.apprentice, ocr.data)
  IN IF ~(ocr.success /\ ocr.hasData) \/ p.apprentice = NoApprentice
          \/ p.file.apprenticeId \notin DOMAIN st.apprentices \/ ~HasKeys(update)
       THEN OcrBlock(st, p.file, p.req, [readThrows |-> FALSE, api |-> api])
     ELSE [st |-> createActivity(updateApprentice(st, p.file.apprenticeId, update).st,
                                 p.req.fileId, "OCR_UPDATE"),
           extracted |-> TRUE, ocr |-> ocr, thrown |-> FALSE]

\* the rest of the OCR block once the call returned `api`, on the store of
\* that time: the Apprentice is read (storage.getApprentice) after the call
resumeBlock(st, p, api) == OcrBlock(st, p.file, p.req, [readThrows |-> FALSE, api |-> api])

\* the rest of POST /api/documents: the Document record and its Activity
PostDocumentsResume(st, p, api) ==
  LET block == resumeBlock(st, p, api)
      c == createDocument(block.st, documentData(p.req, p.path, block))
  IN [st |-> createActivity(c.st, p.req.fileId, "DOCUMENT_UPLOAD"),
      status |-> 201, ocr |-> block.ocr, document |-> c.document]

\* requests to POST /api/documents
DocumentRequests(maxFiles) ==
  {[hasFile |-> TRUE, fileId |-> i, type |-> t.type, extractData |-> t.extractData] :
     i \in 1..maxFiles,
     t \in {[type |-> "ID_CARD", extractData |-> TRUE], [type |-> "ID_CARD", extractData |-> FALSE],
            [type |-> "PASSPORT", extractData |-> TRUE], [type |-> "CONTRACT", extractData |-> TRUE]}}
    \cup {[hasFile |-> TRUE, fileId |-> maxFiles + 1, type |-> "ID_CARD", extractData |-> TRUE],
          [hasFile |-> TRUE, fileId |-> NaN, type |-> "ID_CARD", extractData |-> TRUE],
          [hasFile |-> FALSE, fileId |-> 1, type |-> "ID_CARD", extractData |-> TRUE]}

\* requests to POST /api/documents that upload an identity card to a Case
\* File the store can hold, with extraction requested
ExtractionRequests(maxFiles) ==
  {[hasFile |-> TRUE, fileId |-> i, type |-> "ID_CARD", extractData |-> TRUE] : i \in 1..maxFiles}

\* the handler reads the upload back and calls the API
DocumentsConsultsEnv(st, req) ==
  /\ req.hasFile
  /\ req.fileId \in DOMAIN st.files
  /\ OcrEligible(req)
  /\ apiKey

\* the fields of the OCR answer that hold a value
extractedFields(ocr) ==
  [f \in PersonFields |-> IF Truthy(ocr.data[f]) THEN ocr.data[f] ELSE Null]

\* the JSON body of a 200 answer of /api/extract-id-card:
\* { message, personType, ...ocrResult.data }
extractResponseBody(req, ocr) ==
  ocr.data @@ [message |-> "ID card information extracted successfully",
               personType |-> IF req.apprenticeId # NoId THEN "apprentice"
                              ELSE IF req.mentorId # NoId THEN "mentor" ELSE Null]

ErrorBody == [message |-> "error"]

\* the person updates of /api/extract-id-card
applyExtracted(st, req, ocr) ==
  LET a == IF req.apprenticeId # NoId /\ req.apprenticeId # NaN /\ ocr.hasData
              /\ req.apprenticeId \in DOMAIN st.apprentices
             THEN createActivity(updateApprentice(st, req.apprenticeId, extractedFields(ocr)).st,
                                 NoId, "UPDATE")
             ELSE st
  IN IF req.mentorId # NoId /\ req.mentorId # NaN /\ ocr.hasData
        /\ req.mentorId \in DOMAIN a.mentors
       THEN createActivity(updateMentor(a, req.mentorId, extractedFields(ocr)).st, NoId, "UPDATE")
       ELSE a

\* POST /api/extract-id-card
PostExtractIdCard_LogsEveryCall(st0, req, env) ==
  IF ~req.hasFile THEN [st |-> st0, status |-> 400, ocr |-> NotCalled, body |-> ErrorBody]
  ELSE LET st1 == createActivity(multerStore(st0), NoId, "UPDATE")
       IN IF ~apiKey THEN [st |-> st1, status |-> 400, ocr |-> NotCalled, body |-> ErrorBody]
          ELSE IF env.readThrows
            THEN [st |-> st1, status |-> 500, ocr |-> NotCalled, body |-> ErrorBody]
          ELSE LET ocr == extractIdCardInfo(env.api)
               IN IF ~ocr.success
                    THEN [st |-> st1, status |-> 500, ocr |-> ocr, body |-> ErrorBody]
                  ELSE [st |-> st1, status |-> 200, ocr |-> ocr,
                        body |-> extractResponseBody(req, ocr)]

PostExtractIdCard(st0, req, env) ==
  IF ~req.hasFile THEN [st |-> st0, status |-> 400, ocr |-> NotCalled, body |-> ErrorBody]
  ELSE LET st1 == multerStore(st0)
       IN IF ~apiKey THEN [st |-> st1, status |-> 400, ocr |-> NotCalled, body |-> ErrorBody]
          ELSE IF env.readThrows
            THEN [st |-> st1, status |-> 500, ocr |-> NotCalled, body |-> ErrorBody]
          ELSE LET ocr == extractIdCardInfo(env.api)
               IN IF ~ocr.success
                    THEN [st |-> st1, status |-> 500, ocr |-> ocr, body |-> ErrorBody]
                  ELSE [st |-> applyExtracted(st1, req, ocr), status |-> 200, ocr |-> ocr,
                        body |-> extractResponseBody(req, ocr)]

\* response.ok
ResponseOk(status) == status >= 200 /\ status <= 299

\* uploadDirectDocument (Mode B), up to the check of the extraction answer:
\* the client posts the file alone to /api/extract-id-card, throws unless
\* the answer is ok and has a `data` property, and only then goes on to
\* update the Apprentice, find or create the Case File and post the Document
uploadDirectDocumentExtract(st, form, env) ==
  LET r == PostExtractIdCard(st, [hasFile |-> TRUE, apprenticeId |-> NoId, mentorId |-> NoId], env)
  IN [st |-> r.st, status |-> r.status, ocr |-> r.ocr, body |-> r.body,
      result |-> IF ~ResponseOk(r.status) THEN "error"
                 ELSE IF "data" \notin DOMAIN r.body THEN "error"
                 ELSE "extracted"]

\* the fields the client copies into the Apprentice: those the extraction
\* has and the Apprentice lacks
updateData(apprentice, extractedData) ==
  [f \in PersonFields |->
     IF Truthy(extractedData[f]) /\ ~Truthy(apprentice[f]) THEN extractedData[f] ELSE Null]

\* files?.find(f => f.apprenticeId === apprenticeId): the first Case File of
\* the Apprentice, NoId when there is none
existingFile(st, apprenticeId) ==
  LET own == {f \in DOMAIN st.files : st.files[f].apprenticeId = apprenticeId}
  IN IF own = {} THEN NoId ELSE CHOOSE f \in own : \A g \in own : f <= g

\* what uploadDirectDocument answers when it throws
DirectError(st, x) ==
  [st |-> st, status |-> x.status, ocr |-> x.ocr, result |-> "error",
   updatedFields |-> {}, document |-> NoDocument]

\* Update apprentice if we have new data: PUT /api/apprentices/:id
directFill(st, apprenticeId, upd) ==
  IF HasKeys(upd) THEN PutApprentice(st, apprenticeId, upd).st ELSE st

\* Create file if apprentice doesn't have one: POST /api/files
directFile(st, apprenticeId) ==
  IF existingFile(st, apprenticeId) # NoId
    THEN [st |-> st, fileId |-> existingFile(st, apprenticeId)]
  ELSE [st |-> PostFiles(st, [apprenticeId |-> apprenticeId, companyId |-> 1,
                              mentorId |-> 1, stage |-> "RECEPTION"]).st,
        fileId |-> PostFiles(st, [apprenticeId |-> apprenticeId, companyId |-> 1,
                                  mentorId |-> 1, stage |-> "RECEPTION"]).file.id]

\* Finally, upload the document to the file: the answer `doc` of
\* POST /api/documents and what the mutation returns
directDocument(x, upd, doc) ==
  IF ~ResponseOk(doc.status) THEN DirectError(doc.st, x)
  ELSE [st |-> doc.st, status |-> doc.status, ocr |-> x.ocr, result |-> "completed",
        updatedFields |-> {f \in PersonFields : upd[f] # Null},
        document |-> doc.document]

\* the steps of uploadDirectDocument after the extraction answer `x` was
\* accepted; `target` is the Case File found or created
directAttach(x, form, upd, target, env2) ==
  directDocument(x, upd,
                 PostDocuments(target.st, [hasFile |-> TRUE, fileId |-> target.fileId,
                                           type |-> form.type, extractData |-> TRUE], env2))

directContinue(x, form, upd, env2) ==
  directAttach(x, form, upd, directFile(directFill(x.st, form.apprenticeId, upd),
                                        form.apprenticeId), env2)

\* uploadDirectDocument (Mode B), whole: after the extraction answer was
\* accepted, fill the blank fields of the Apprentice (PUT /api/apprentices),
\* find or create its Case File (POST /api/files) and post the Document
\* (POST /api/documents, which runs the extraction again: env2).  The
\* lists of Apprentices and Case Files the client holds are those of the
\* store.
directUpload(x, form, env2) ==
  IF x.result = "error" THEN DirectError(x.st, x)
  ELSE IF form.apprenticeId \notin DOMAIN x.st.apprentices THEN DirectError(x.st, x)
  ELSE directContinue(x, form,
                      updateData(x.st.apprentices[form.apprenticeId], x.body.data), env2)

uploadDirectDocument(st0, form, env, env2) ==
  directUpload(uploadDirectDocumentExtract(st0, form, env), form, env2)

\* uploadDirectDocument step by step.  The mutation function closes over the
\* lists `apprentices` and `files` of the render it was started from, so it
\* works on the lists the client had fetched by then; each of its requests
\* is served at its own time, between the requests of others.
\*
\* the workflow after the extraction answer `x` was accepted: the Apprentice
\* is looked up in the list held, and the fields to send are computed from it
directStart(x, form, lists) ==
  [id |-> x.st.uploadSeq, form |-> form, files |-> lists.files,
   upd |-> updateData(lists.apprentices[form.apprenticeId], x.body.data),
   x |-> [status |-> x.status, ocr |-> x.ocr],
   fileId |-> NoId, changed |-> {}, phase |-> "fill"]

\* files?.find(...) on the list held: the Case File to attach to, or the
\* request to create one
directTarget(job) ==
  IF existingFile(job, job.form.apprenticeId) # NoId
    THEN [job EXCEPT !.fileId = existingFile(job, job.form.apprenticeId), !.phase = "document"]
  ELSE [job EXCEPT !.phase = "file"]

\* if (Object.keys(updateData).length > 0) await apiRequest("PUT", ...)
directAfterStart(job) == IF HasKeys(job.upd) THEN job ELSE directTarget(job)

\* ------------------------------------------------------- settings editor
\* customPipeline.findIndex(step => step.id === id): the first position
\* whose step has the id, 0 for the -1 of a miss (positions count from 1)
findIndex(steps, id) ==
  IF \E i \in 1..Len(steps) : steps[i].id = id
    THEN CHOOSE i \in 1..Len(steps) :
           steps[i].id = id /\ \A j \in 1..(i - 1) : steps[j].id # id
    ELSE 0

\* the two elements at positions i and i + 1 exchanged
swapped(steps, i) ==
  [k \in 1..Len(steps) |-> IF k = i THEN steps[i + 1] ELSE IF k = i + 1 THEN steps[i] ELSE steps[k]]

\* ids are the decimal strings of the numbers held here
handleAddPipelineStep(steps) ==
  LET newId == Len(steps) + 1
      newKey == "STAGE_" \o ToString(newId)
  IN Append(steps, [id |-> newId, name |-> "Nouvelle etape", key |-> newKey])

handleUpdatePipelineStep(steps, id, updatedName) ==
  [k \in 1..Len(steps) |->
     IF steps[k].id = id THEN [steps[k] EXCEPT !.name = updatedName] ELSE steps[k]]

handleRemovePipelineStep(steps, id) ==
  IF Len(steps) <= 2 THEN steps
  ELSE SelectSeq(steps, LAMBDA step : step.id # id)

handleMoveStepUp(steps, id) ==
  LET index == findIndex(steps, id)
  IN IF index <= 1 THEN steps ELSE swapped(steps, index - 1)

handleMoveStepDown(steps, id) ==
  LET index == findIndex(steps, id)
  IN IF index >= Len(steps) THEN steps
     ELSE IF index = 0 THEN steps
     ELSE swapped(steps, index)

\* ----------------------------------------------------------------- actions
\* Each action serves one request.  `caps` bounds the collections of the
\* specification the action is used in.
PipelineCaps ==
  [apprentices |-> 0, companies |-> 0, mentors |-> 0, files |-> MaxFiles, documents |-> 0,
   uploads |-> 0, activities |-> MaxActivities,
   users |-> 0, comments |-> 0]
IngestCaps ==
  [apprentices |-> MaxApprentices, companies |-> 0, mentors |-> 0, files |-> MaxIngestFiles,
   documents |-> MaxUploads, uploads |-> MaxUploads, activities |-> MaxIngestActivities,
   users |-> 0, comments |-> 0]
DirectCaps ==
  [apprentices |-> MaxApprentices, companies |-> 0, mentors |-> 0, files |-> MaxIngestFiles,
   documents |-> MaxDirectUploads, uploads |-> MaxDirectUploads,
   activities |-> MaxIngestActivities,
   users |-> 0, comments |-> 0]
DetailCaps ==
  [apprentices |-> MaxApprentices, companies |-> MaxCompanies, mentors |-> MaxMentors,
   files |-> MaxDetailFiles, documents |-> 0, uploads |-> 0,
   activities |-> MaxDetailActivities,
   users |-> 0, comments |-> 0]
IdCaps ==
  [apprentices |-> MaxIdApprentices, companies |-> 0, mentors |-> 0, files |-> MaxIdFiles,
   documents |-> 0, uploads |-> 0, activities |-> MaxIdActivities,
   users |-> 0, comments |-> 0]
RepeatCaps ==
  [apprentices |-> MaxApprentices, companies |-> 0, mentors |-> 0, files |-> MaxIngestFiles,
   documents |-> MaxRepeatUploads, uploads |-> MaxRepeatUploads,
   activities |-> MaxRepeatActivities,
   users |-> 0, comments |-> 0]

Room(st, caps) ==
  /\ st.currentApprenticeId <= caps.apprentices + 1
  /\ st.currentCompanyId <= caps.companies + 1
  /\ st.currentMentorId <= caps.mentors + 1
  /\ st.currentFileId <= caps.files + 1
  /\ st.currentDocumentId <= caps.documents + 1
  /\ st.currentCommentId <= caps.comments + 1
  /\ st.currentUserId <= caps.users + 2
  /\ st.currentActivityId <= caps.activities + 1
  /\ st.uploadSeq <= caps.uploads

CreateApprentice(caps, bodies) ==
  \E body \in bodies :
    LET r == PostApprentices(Store, body)
    IN /\ Room(r.st, caps)
       /\ Commit(r.st)
       /\ last' = [op |-> "POST /api/apprentices", status |-> r.status]
       /\ UNCHANGED <<apiKey, now, sideVars>>

CreateCompany(caps) ==
  LET r == PostCompanies(Store, [name |-> "ACME"])
  IN /\ Room(r.st, caps)
     /\ Commit(r.st)
     /\ last' = [op |-> "POST /api/companies", status |-> r.status]
     /\ UNCHANGED <<apiKey, now, sideVars>>

CreateMentor(caps) ==
  LET r == PostMentors(Store, [firstName |-> "Marc", lastName |-> "Durand"])
  IN /\ Room(r.st, caps)
     /\ Commit(r.st)
     /\ last' = [op |-> "POST /api/mentors", status |-> r.status]
     /\ UNCHANGED <<apiKey, now, sideVars>>

GetFile(caps) ==
  \E fileId \in IdInputs(caps.files) :
    LET r == GetFileRoute(Store, fileId)
    IN /\ last' = [op |-> "GET /api/files/:id", status |-> r.status,
                   fileId |-> fileId, file |-> r.file]
       /\ UNCHANGED <<storeVars, apiKey, now, sideVars>>

GetFileDetails(caps) ==
  \E fileId \in IdInputs(caps.files) :
    LET r == GetFileDetailsRoute(Store, fileId)
    IN /\ last' = [op |-> "GET /api/files/:id/details", status |-> r.status,
                   fileId |-> fileId, details |-> r.details]
       /\ UNCHANGED <<storeVars, apiKey, now, sideVars>>

DeleteApprentice(caps) ==
  \E apprenticeId \in IdInputs(caps.apprentices) :
    LET r == DeleteApprenticeRoute(Store, apprenticeId)
    IN /\ Room(r.st, caps)
       /\ Commit(r.st)
       /\ last' = [op |-> "DELETE /api/apprentices/:id", status |-> r.status,
                   apprenticeId |-> apprenticeId]
       /\ UNCHANGED <<apiKey, now, sideVars>>

CreateFile(caps, bodies) ==
  \E body \in bodies :
    LET r == PostFiles(Store, body)
    IN /\ Room(r.st, caps)
       /\ Commit(r.st)
       /\ last' = [op |-> "POST /api/files", status |-> r.status,
                   stage |-> body.stage, file |-> r.file]
       /\ UNCHANGED <<apiKey, now, sideVars>>

UpdateFile(caps) ==
  \E fileId \in IdInputs(caps.files), body \in FilePartialInputs :
    LET r == PutFile(Store, fileId, body)
    IN /\ Room(r.st, caps)
       /\ Commit(r.st)
       /\ last' = [op |-> "PUT /api/files/:id", status |-> r.status,
                   fileId |-> fileId, stage |-> body.stage, file |-> r.file]
       /\ UNCHANGED <<apiKey, now, sideVars>>

TransitionStage(caps) ==
  \E req \in StageRequests(caps.files) :
    LET r == PutFileStage(Store, req.fileId, req.stage)
    IN /\ Room(r.st, caps)
       /\ Commit(r.st)
       /\ last' = [op |-> "PUT /api/files/:id/stage", status |-> r.status,
                   fileId |-> req.fileId, stage |-> req.stage, file |-> r.file]
       /\ UNCHANGED <<apiKey, now, sideVars>>

DeleteFile(caps) ==
  \E fileId \in IdInputs(caps.files) :
    LET r == DeleteFileRoute(Store, fileId)
    IN /\ Room(r.st, caps)
       /\ Commit(r.st)
       /\ last' = [op |-> "DELETE /api/files/:id", status |-> r.status,
                   fileId |-> fileId]
       /\ UNCHANGED <<apiKey, now, sideVars>>

CreateUser(caps) ==
  LET r == PostUsers(Store, [username |-> "user"])
  IN /\ Room(r.st, caps)
     /\ Commit(r.st)
     /\ last' = [op |-> "POST /api/users", status |-> r.status]
     /\ UNCHANGED <<apiKey, now, sideVars>>

DeleteCompany(caps) ==
  \E companyId \in IdInputs(caps.companies) :
    LET r == DeleteCompanyRoute(Store, companyId)
    IN /\ Room(r.st, caps)
       /\ Commit(r.st)
       /\ last' = [op |-> "DELETE /api/companies/:id", status |-> r.status,
                   companyId |-> companyId]
       /\ UNCHANGED <<apiKey, now, sideVars>>

DeleteMentor(caps) ==
  \E mentorId \in IdInputs(caps.mentors) :
    LET r == DeleteMentorRoute(Store, mentorId)
    IN /\ Room(r.st, caps)
       /\ Commit(r.st)
       /\ last' = [op |-> "DELETE /api/mentors/:id", status |-> r.status,
                   mentorId |-> mentorId]
       /\ UNCHANGED <<apiKey, now, sideVars>>

DeleteDocument(caps) ==
  \E documentId \in IdInputs(caps.documents) :
    LET r == DeleteDocumentRoute(Store, documentId)
    IN /\ Room(r.st, caps)
       /\ Commit(r.st)
       /\ last' = [op |-> "DELETE /api/documents/:id", status |-> r.status,
                   documentId |-> documentId]
       /\ UNCHANGED <<apiKey, now, sideVars>>

CreateComment(caps, bodies) ==
  \E body \in bodies :
    LET r == PostComments(Store, body)
    IN /\ Room(r.st, caps)
       /\ Commit(r.st)
       /\ last' = [op |-> "POST /api/comments", status |-> r.status,
                   fileId |-> body.fileId, userId |-> body.userId, comment |-> r.comment]
       /\ UNCHANGED <<apiKey, now, sideVars>>

DeleteComment(caps) ==
  \E commentId \in IdInputs(caps.comments) :
    LET r == DeleteCommentRoute(Store, commentId)
    IN /\ Room(r.st, caps)
       /\ Commit(r.st)
       /\ last' = [op |-> "DELETE /api/comments/:id", status |-> r.status,
                   commentId |-> commentId]
       /\ UNCHANGED <<apiKey, now, sideVars>>

GetComments(caps) ==
  \E fileId \in IdInputs(caps.files) :
    LET r == GetCommentsRoute(Store, fileId)
    IN /\ last' = [op |-> "GET /api/files/:fileId/comments", status |-> r.status,
                   fileId |-> fileId, threw |-> r.threw]
       /\ UNCHANGED <<storeVars, apiKey, now, sideVars>>

GetActivities ==
  \E limit \in {NoId, 1} :
    LET r == GetActivitiesRoute(Store, limit)
    IN /\ last' = [op |-> "GET /api/activities", status |-> r.status,
                   limit |-> limit, threw |-> r.threw]
       /\ UNCHANGED <<storeVars, apiKey, now, sideVars>>

GetFileActivities(caps) ==
  \E fileId \in IdInputs(caps.files) :
    LET r == GetFileActivitiesRoute(Store, fileId)
    IN /\ last' = [op |-> "GET /api/files/:fileId/activities", status |-> r.status,
                   fileId |-> fileId, threw |-> r.threw]
       /\ UNCHANGED <<storeVars, apiKey, now, sideVars>>

\* GET /api/stats
GetStats ==
  /\ last' = [op |-> "GET /api/stats", status |-> 200, stats |-> getStats(Store)]
  /\ UNCHANGED <<storeVars, apiKey, now, sideVars>>

UploadDocument(caps, requests) ==
  \E req \in requests :
    \E env \in Envs(DocumentsConsultsEnv(Store, req)) :
      LET r == PostDocuments(Store, req, env)
      IN /\ Room(r.st, caps)
         /\ Commit(r.st)
         /\ last' = [op |-> "POST /api/documents", status |-> r.status,
                     hasFile |-> req.hasFile, fileId |-> req.fileId, type |-> req.type,
                     extractData |-> req.extractData, readThrew |-> env.readThrows,
                     ocr |-> r.ocr, document |-> r.document]
         /\ UNCHANGED <<apiKey, now, sideVars>>

\* request bodies of PUT /api/apprentices/:id
ApprenticeEdits ==
  {[firstName |-> Null, lastName |-> Null, birthDate |-> Null, address |-> "Edited Address"]}

EditApprentice(caps) ==
  \E apprenticeId \in 1..caps.apprentices, body \in ApprenticeEdits :
    LET r == PutApprentice(Store, apprenticeId, body)
    IN /\ Room(r.st, caps)
       /\ Commit(r.st)
       /\ last' = [op |-> "PUT /api/apprentices/:id", status |-> r.status,
                   apprenticeId |-> apprenticeId]
       /\ UNCHANGED <<apiKey, now, sideVars>>

\* POST /api/documents up to the extraction call; a request that does not
\* reach the call is served whole
BeginUpload(caps, requests) ==
  \E req \in requests :
    \E env \in {[readThrows |-> t, api |-> NoEnv.api] : t \in BOOLEAN} :
      IF reachesExtraction(Store, req, env)
        THEN /\ Room(multerStore(Store), caps)
             /\ Commit(multerStore(Store))
             /\ inflight' = inflight \cup {suspended(multerStore(Store), req)}
             /\ last' = [op |-> "POST /api/documents (extraction called)", status |-> NoAnswer,
                         fileId |-> req.fileId]
             /\ UNCHANGED <<apiKey, now, customPipeline, clientVars>>
      ELSE LET r == PostDocuments(Store, req, env)
           IN /\ Room(r.st, caps)
              /\ Commit(r.st)
              /\ last' = [op |-> "POST /api/documents", status |-> r.status,
                          hasFile |-> req.hasFile, fileId |-> req.fileId, type |-> req.type,
                          extractData |-> req.extractData, readThrew |-> env.readThrows,
                          ocr |-> r.ocr, document |-> r.document]
              /\ UNCHANGED <<apiKey, now, sideVars>>

\* the extraction call of a waiting handler returns and the handler runs
\* to its end
FinishUpload(caps, outcomes) ==
  \E p \in inflight, api \in outcomes :
    LET r == PostDocumentsResume(Store, p, api)
    IN /\ Room(r.st, caps)
       /\ Commit(r.st)
       /\ inflight' = inflight \ {p}
       /\ last' = [op |-> "POST /api/documents (extraction returned)", status |-> r.status,
                   fileId |-> p.req.fileId, pending |-> p, ocr |-> r.ocr,
                   document |-> r.document]
       /\ UNCHANGED <<apiKey, now, customPipeline, clientVars>>

\* what the second extraction of a direct upload meets; it is not reached
\* when the first answer was refused
SecondEnvs(st, form, env) ==
  IF uploadDirectDocumentExtract(st, form, env).result = "error" THEN {NoEnv} ELSE Envs(apiKey)

DirectUpload(caps) ==
  \E apprenticeId \in 1..caps.apprentices, type \in IdentityTypes :
    \E env \in Envs(apiKey) :
      \E env2 \in SecondEnvs(Store, [apprenticeId |-> apprenticeId, type |-> type], env) :
        LET r == uploadDirectDocument(Store, [apprenticeId |-> apprenticeId, type |-> type],
                                      env, env2)
        IN /\ Room(r.st, caps)
           /\ Commit(r.st)
           /\ last' = [op |-> "uploadDirectDocument", status |-> r.status,
                       apprenticeId |-> apprenticeId, type |-> type,
                       readThrew |-> env.readThrows, ocr |-> r.ocr, result |-> r.result,
                       updatedFields |-> r.updatedFields, document |-> r.document]
           /\ UNCHANGED <<apiKey, now, sideVars>>

\* POST /api/extract-id-card with the id of an Apprentice, of a Mentor, or
\* of neither
ExtractIdCard(caps, requests) ==
  \E req \in requests, env \in Envs(apiKey) :
    LET r == PostExtractIdCard(Store, req, env)
    IN /\ Room(r.st, caps)
       /\ Commit(r.st)
       /\ last' = [op |-> "POST /api/extract-id-card", status |-> r.status, req |-> req,
                   readThrew |-> env.readThrows, ocr |-> r.ocr]
       /\ UNCHANGED <<apiKey, now, sideVars>>

GetSettings ==
  LET r == GetSettingsRoute(customPipeline)
  IN /\ last' = [op |-> "GET /api/settings", status |-> r.status, pipeline |-> r.pipeline]
     /\ UNCHANGED <<storeVars, apiKey, now, sideVars>>

SavePipeline(bodies) ==
  \E body \in bodies :
    LET r == PutSettingsPipeline(customPipeline, body)
    IN /\ customPipeline' = r.pipeline
       /\ last' = [op |-> "PUT /api/settings/pipeline", status |-> r.status, body |-> body]
       /\ UNCHANGED <<storeVars, apiKey, now, inflight, clientVars>>

\* GET /api/apprentices and GET /api/files, as the client's queries fetch them
FetchApprentices ==
  /\ queries' = [queries EXCEPT !.apprentices = apprentices]
  /\ last' = [op |-> "GET /api/apprentices", status |-> 200]
  /\ UNCHANGED <<storeVars, apiKey, now, customPipeline, inflight, mutations, pipelineSteps>>

FetchFiles ==
  /\ queries' = [queries EXCEPT !.files = files]
  /\ last' = [op |-> "GET /api/files", status |-> 200]
  /\ UNCHANGED <<storeVars, apiKey, now, customPipeline, inflight, mutations, pipelineSteps>>

\* uploadDirectDocument, first request: POST /api/extract-id-card, the check
\* of its answer and the lookup of the Apprentice
DirectBegin(caps, outcomes) ==
  \E apprenticeId \in 1..caps.apprentices, type \in {"ID_CARD"} :
    \E env \in {[readThrows |-> FALSE, api |-> a] : a \in outcomes} :
      LET form == [apprenticeId |-> apprenticeId, type |-> type]
          x == uploadDirectDocumentExtract(Store, form, env)
          accepted == x.result # "error" /\ apprenticeId \in DOMAIN queries.apprentices
      IN /\ Room(x.st, caps)
         /\ Commit(x.st)
         /\ mutations' = IF accepted
                            THEN mutations \cup {directAfterStart(directStart(x, form, queries))}
                          ELSE mutations
         /\ last' = [op |-> "uploadDirectDocument: POST /api/extract-id-card",
                     status |-> x.status, apprenticeId |-> apprenticeId, ocr |-> x.ocr,
                     result |-> IF accepted THEN "extracted" ELSE "error"]
         /\ UNCHANGED <<apiKey, now, customPipeline, inflight, queries, pipelineSteps>>

\* second request: PUT /api/apprentices/:id with the fields computed
DirectFill(caps) ==
  \E job \in {j \in mutations : j.phase = "fill"} :
    LET r == PutApprentice(Store, job.form.apprenticeId, job.upd)
        changed == IF job.form.apprenticeId \in DOMAIN apprentices /\ ResponseOk(r.status)
                     THEN {f \in PersonFields :
                             r.st.apprentices[job.form.apprenticeId][f]
                               # apprentices[job.form.apprenticeId][f]}
                   ELSE {}
    IN /\ Room(r.st, caps)
       /\ Commit(r.st)
       /\ mutations' = (mutations \ {job})
                          \cup (IF ResponseOk(r.status)
                                  THEN {directTarget([job EXCEPT !.changed = changed])}
                                ELSE {})
       /\ last' = [op |-> "uploadDirectDocument: PUT /api/apprentices/:id",
                   status |-> r.status, apprenticeId |-> job.form.apprenticeId,
                   sent |-> job.upd]
       /\ UNCHANGED <<apiKey, now, customPipeline, inflight, queries, pipelineSteps>>

\* third request, sent when the list held has no Case File of the
\* Apprentice: POST /api/files
DirectFile(caps) ==
  \E job \in {j \in mutations : j.phase = "file"} :
    LET r == PostFiles(Store, [apprenticeId |-> job.form.apprenticeId, companyId |-> 1,
                               mentorId |-> 1, stage |-> "RECEPTION"])
    IN /\ Room(r.st, caps)
       /\ Commit(r.st)
       /\ mutations' = (mutations \ {job})
                          \cup (IF ResponseOk(r.status)
                                  THEN {[job EXCEPT !.fileId = r.file.id, !.phase = "document"]}
                                ELSE {})
       /\ last' = [op |-> "uploadDirectDocument: POST /api/files", status |-> r.status,
                   apprenticeId |-> job.form.apprenticeId, file |-> r.file]
       /\ UNCHANGED <<apiKey, now, customPipeline, inflight, queries, pipelineSteps>>

\* last request: POST /api/documents, and what the mutation returns
DirectDocument(caps, outcomes) ==
  \E job \in {j \in mutations : j.phase = "document"} :
    \E env2 \in {[readThrows |-> FALSE, api |-> a] : a \in outcomes} :
      LET doc == PostDocuments(Store, [hasFile |-> TRUE, fileId |-> job.fileId,
                                       type |-> job.form.type, extractData |-> TRUE], env2)
          r == directDocument(job.x, job.upd, doc)
      IN /\ Room(r.st, caps)
         /\ Commit(r.st)
         /\ mutations' = mutations \ {job}
         /\ last' = [op |-> "uploadDirectDocument: POST /api/documents", status |-> r.status,
                     apprenticeId |-> job.form.apprenticeId, result |-> r.result,
                     updatedFields |-> r.updatedFields, changed |-> job.changed,
                     document |-> r.document]
         /\ UNCHANGED <<apiKey, now, customPipeline, inflight, queries, pipelineSteps>>

\* the buttons and the name field of the settings page: each acts on a step
\* the page shows
StepIds == {pipelineSteps[i].id : i \in 1..Len(pipelineSteps)}

EditorFrame == <<storeVars, apiKey, now, customPipeline, inflight, queries, mutations>>

AddStep ==
  /\ Len(pipelineSteps) < MaxSteps
  /\ pipelineSteps' = handleAddPipelineStep(pipelineSteps)
  /\ last' = [op |-> "handleAddPipelineStep", status |-> 0]
  /\ UNCHANGED EditorFrame

\* the name typed is that of the last step of the list, the place of a step
\* just added
RenameStep ==
  \E id \in StepIds :
    /\ id = pipelineSteps[Len(pipelineSteps)].id
    /\ pipelineSteps' = handleUpdatePipelineStep(pipelineSteps, id, "Renamed")
    /\ last' = [op |-> "handleUpdatePipelineStep", status |-> 0]
    /\ UNCHANGED EditorFrame

RemoveStep ==
  \E id \in StepIds :
    /\ pipelineSteps' = handleRemovePipelineStep(pipelineSteps, id)
    /\ last' = [op |-> "handleRemovePipelineStep", status |-> 0]
    /\ UNCHANGED EditorFrame

MoveStepUp ==
  \E id \in StepIds :
    /\ pipelineSteps' = handleMoveStepUp(pipelineSteps, id)
    /\ last' = [op |-> "handleMoveStepUp", status |-> 0]
    /\ UNCHANGED EditorFrame

MoveStepDown ==
  \E id \in StepIds :
    /\ pipelineSteps' = handleMoveStepDown(pipelineSteps, id)
    /\ last' = [op |-> "handleMoveStepDown", status |-> 0]
    /\ UNCHANGED EditorFrame

\* ---------------------------------------------------------- specifications
\* the case-file pipeline: create, update, stage transition, delete
Next ==
  \/ Tick
  \/ CreateFile(PipelineCaps, FileInputs)
  \/ UpdateFile(PipelineCaps)
  \/ TransitionStage(PipelineCaps)
  \/ DeleteFile(PipelineCaps)
  \/ GetStats

Spec == Init /\ [][Next]_vars

\* request bodies of POST /api/files in the ingestion specifications: the
\* Apprentice the Case File refers to may not be in the store yet
IngestFileInputs ==
  {[apprenticeId |-> a, companyId |-> 1, mentorId |-> 1, stage |-> "REQUEST"] :
     a \in 1..MaxApprentices}

\* document ingestion: apprentices, case files and Mode A uploads, all
\* served at one reading of the clock
NextIngest ==
  \/ CreateApprentice(IngestCaps, ApprenticeInputs)
  \/ CreateFile(IngestCaps, IngestFileInputs)
  \/ UploadDocument(IngestCaps, DocumentRequests(IngestCaps.files))

SpecIngest == Init /\ [][NextIngest]_vars

\* direct uploads (Mode B) for the Apprentices of the store
NextDirect ==
  \/ CreateApprentice(DirectCaps, ApprenticeInputs)
  \/ CreateFile(DirectCaps, IngestFileInputs)
  \/ DirectUpload(DirectCaps)

SpecDirect == Init /\ [][NextDirect]_vars

\* identity cards uploaded again and again to the Case Files of the store
NextRepeat ==
  \/ CreateApprentice(RepeatCaps, ApprenticeInputs)
  \/ CreateFile(RepeatCaps, IngestFileInputs)
  \/ UploadDocument(RepeatCaps, ExtractionRequests(RepeatCaps.files))

SpecRepeat == Init /\ [][NextRepeat]_vars

\* request bodies of POST /api/files whose references are to records the
\* store may or may not hold when the Case File is read
DetailFileInputs ==
  {[apprenticeId |-> a, companyId |-> c, mentorId |-> m, stage |-> "REQUEST"] :
     a \in 1..MaxApprentices, c \in 1..MaxCompanies, m \in 1..MaxMentors}

\* raw and joined reads of Case Files whose Apprentice, Company and Mentor
\* are created, or deleted, at any time
NextDetails ==
  \/ CreateApprentice(DetailCaps, ApprenticeInputs)
  \/ DeleteApprentice(DetailCaps)
  \/ CreateCompany(DetailCaps)
  \/ CreateMentor(DetailCaps)
  \/ CreateFile(DetailCaps, DetailFileInputs)
  \/ GetFile(DetailCaps)
  \/ GetFileDetails(DetailCaps)

SpecDetails == Init /\ [][NextDetails]_vars

\* records created and deleted in turn
IdFileInputs == {[apprenticeId |-> 1, companyId |-> 1, mentorId |-> 1, stage |-> "REQUEST"]}

NextIds ==
  \/ CreateApprentice(IdCaps, ApprenticeInputs)
  \/ DeleteApprentice(IdCaps)
  \/ CreateFile(IdCaps, IdFileInputs)
  \/ DeleteFile(IdCaps)

SpecIds == Init /\ [][NextIds]_vars

\* Case Files, Comments and contracts uploaded without extraction
DeleteApprenticeInputs ==
  {[firstName |-> "Alice", lastName |-> "Martin", birthDate |-> "2000-01-01",
    address |-> "12 Rue de Paris"]}
DeleteFileInputs == {[apprenticeId |-> 1, companyId |-> 1, mentorId |-> 1, stage |-> "REQUEST"]}
DeleteCommentInputs == {[fileId |-> 1, userId |-> 1]}
DeleteDocumentRequests ==
  {[hasFile |-> TRUE, fileId |-> 1, type |-> "CONTRACT", extractData |-> FALSE]}

\* the Apprentices, Companies and Mentors the Case Files refer to
Referred(field) == {body[field] : body \in DeleteFileInputs}

\* deletions of records that other records refer to
DeleteCaps ==
  [apprentices |-> Cardinality(Referred("apprenticeId")),
   companies |-> Cardinality(Referred("companyId")),
   mentors |-> Cardinality(Referred("mentorId")),
   files |-> MaxDeleteRecords, documents |-> MaxDeleteRecords,
   uploads |-> MaxDeleteRecords, activities |-> MaxDeleteActivities,
   users |-> 0, comments |-> MaxDeleteRecords]

NextDelete ==
  \/ CreateApprentice(DeleteCaps, DeleteApprenticeInputs)
  \/ CreateCompany(DeleteCaps)
  \/ CreateMentor(DeleteCaps)
  \/ CreateFile(DeleteCaps, DeleteFileInputs)
  \/ UploadDocument(DeleteCaps, DeleteDocumentRequests)
  \/ CreateComment(DeleteCaps, DeleteCommentInputs)
  \/ DeleteApprentice(DeleteCaps)
  \/ DeleteCompany(DeleteCaps)
  \/ DeleteMentor(DeleteCaps)
  \/ DeleteFile(DeleteCaps)

\* no extraction is requested: the API key plays no part
SpecDelete == InitWithoutKey /\ [][NextDelete]_vars

\* one Apprentice with blank fields and its Case File
RaceApprenticeInputs ==
  {[firstName |-> "Alice", lastName |-> "", birthDate |-> Null, address |-> Null]}
RaceFileInputs == {[apprenticeId |-> 1, companyId |-> 1, mentorId |-> 1, stage |-> "REQUEST"]}
\* what the extraction call returns: an object, or an error
RaceApiOutcomes ==
  {[kind |-> "object", data |-> d] : d \in OcrData} \cup {[kind |-> "neterror", data |-> NoData]}

\* Mode A uploads whose extraction is in flight while other requests are
\* served: another upload, an edit of the Apprentice, a deletion of the
\* Case File
RaceCaps ==
  [apprentices |-> Cardinality(RaceApprenticeInputs), companies |-> 0, mentors |-> 0,
   files |-> Cardinality(RaceFileInputs), documents |-> MaxRaceUploads,
   uploads |-> MaxRaceUploads, activities |-> MaxRaceActivities, users |-> 0, comments |-> 0]

NextRace ==
  \/ CreateApprentice(RaceCaps, RaceApprenticeInputs)
  \/ CreateFile(RaceCaps, RaceFileInputs)
  \/ EditApprentice(RaceCaps)
  \/ DeleteFile(RaceCaps)
  \/ BeginUpload(RaceCaps, ExtractionRequests(RaceCaps.files))
  \/ FinishUpload(RaceCaps, RaceApiOutcomes)

\* the key is set: every upload calls the extraction
SpecRace == InitWithKey /\ [][NextRace]_vars

\* what the extraction call returns to a direct upload: an object with the
\* fields under `data`, or an error
ClientApiOutcomes ==
  {[kind |-> "object",
    data |-> [firstName |-> Null, lastName |-> Null, birthDate |-> Null, address |-> Null,
              data |-> [firstName |-> "BOB", lastName |-> "DUPONT", birthDate |-> "1999-12-31",
                        address |-> "Other Address"]]],
   [kind |-> "neterror", data |-> NoData]}

\* direct uploads (Mode B), request by request, for an Apprentice that is
\* edited meanwhile.  A direct
\* upload sends two files and logs up to four Activities.
ClientCaps ==
  [apprentices |-> Cardinality(RaceApprenticeInputs), companies |-> 0, mentors |-> 0,
   files |-> MaxClientUploads, documents |-> MaxClientUploads,
   uploads |-> 2 * MaxClientUploads, activities |-> 4 * MaxClientUploads,
   users |-> 0, comments |-> 0]

NextClient ==
  \/ CreateApprentice(ClientCaps, RaceApprenticeInputs)
  \/ EditApprentice(ClientCaps)
  \/ FetchApprentices
  \/ FetchFiles
  \/ DirectBegin(ClientCaps, ClientApiOutcomes)
  \/ DirectFill(ClientCaps)
  \/ DirectFile(ClientCaps)
  \/ DirectDocument(ClientCaps, ClientApiOutcomes)

SpecClient == InitWithKey /\ [][NextClient]_vars

\* identity cards sent to /api/extract-id-card for the Apprentice or the
\* Mentor of the store
ExtractRequests ==
  {[hasFile |-> TRUE, apprenticeId |-> a, mentorId |-> m] :
     a \in {NoId, 1}, m \in {NoId, 1}}
    \cup {[hasFile |-> FALSE, apprenticeId |-> NoId, mentorId |-> NoId]}

ExtractCaps ==
  [apprentices |-> MaxApprentices, companies |-> 0, mentors |-> MaxMentors, files |-> 0,
   documents |-> 0, uploads |-> MaxExtractUploads,
   activities |-> MaxApprentices + MaxMentors + 2 * MaxExtractUploads,
   users |-> 0, comments |-> 0]

NextExtract ==
  \/ CreateApprentice(ExtractCaps, ApprenticeInputs)
  \/ CreateMentor(ExtractCaps)
  \/ ExtractIdCard(ExtractCaps, ExtractRequests)

SpecExtract == Init /\ [][NextExtract]_vars

\* Case Files, Documents and Comments created and deleted one by one; the
\* Documents and Comments are those of the last Case File the store can hold
RemoveFileInputs == {[apprenticeId |-> 1, companyId |-> 1, mentorId |-> 1, stage |-> "REQUEST"]}
RemoveFileIds == {1, 2}
RemoveDocumentRequests ==
  {[hasFile |-> TRUE, fileId |-> Cardinality(RemoveFileIds), type |-> "CONTRACT",
    extractData |-> FALSE]}
RemoveCommentInputs == {[fileId |-> Cardinality(RemoveFileIds), userId |-> 1]}

\* every record is created with one Activity and deleted with one
RemoveCaps ==
  [apprentices |-> 0, companies |-> 0, mentors |-> 0, files |-> Cardinality(RemoveFileIds),
   documents |-> MaxRemoveRecords, uploads |-> MaxRemoveRecords,
   activities |-> 2 * (Cardinality(RemoveFileIds) + MaxRemoveRecords
                         + Cardinality(RemoveCommentInputs)),
   users |-> 0, comments |-> Cardinality(RemoveCommentInputs)]

NextRemove ==
  \/ CreateFile(RemoveCaps, RemoveFileInputs)
  \/ UploadDocument(RemoveCaps, RemoveDocumentRequests)
  \/ CreateComment(RemoveCaps, RemoveCommentInputs)
  \/ DeleteFile(RemoveCaps)
  \/ DeleteDocument(RemoveCaps)
  \/ DeleteComment(RemoveCaps)

\* no extraction is requested: the API key plays no part
SpecRemove == InitWithoutKey /\ [][NextRemove]_vars

\* Comments posted in the name of the admin user and of the next user id,
\* and the reads that join Comments and Activities with their users
JoinFileInputs == {[apprenticeId |-> 1, companyId |-> 1, mentorId |-> 1, stage |-> "REQUEST"]}
JoinCommentInputs == {[fileId |-> 1, userId |-> u] : u \in {1, 2}}

JoinCaps ==
  [apprentices |-> 0, companies |-> 0, mentors |-> 0, files |-> Cardinality(JoinFileInputs),
   documents |-> 0, uploads |-> 0,
   activities |-> Cardinality(JoinFileInputs) + MaxJoinComments,
   users |-> 1, comments |-> MaxJoinComments]

NextJoin ==
  \/ CreateUser(JoinCaps)
  \/ CreateFile(JoinCaps, JoinFileInputs)
  \/ CreateComment(JoinCaps, JoinCommentInputs)
  \/ GetFileDetails(JoinCaps)
  \/ GetComments(JoinCaps)
  \/ GetActivities
  \/ GetFileActivities(JoinCaps)

SpecJoin == InitWithoutKey /\ [][NextJoin]_vars

\* bodies of PUT /api/settings/pipeline: no `stages`, a value that is not an
\* array, an empty array, a stage without a name, and two configurations
\* that name a stage the routes do not know and leave out some they know
PipelineBodies ==
  {[kind |-> "missing", stages |-> <<>>],
   [kind |-> "notarray", stages |-> <<>>],
   [kind |-> "array", stages |-> <<>>],
   [kind |-> "array", stages |-> <<[key |-> "REQUEST", name |-> ""]>>],
   [kind |-> "array", stages |-> <<[key |-> "RECEPTION", name |-> "Open"],
                                   [key |-> "VALIDATED", name |-> "Closed"]>>],
   [kind |-> "array", stages |-> <<[key |-> "RECEPTION", name |-> "Open"],
                                   [key |-> "REQUEST", name |-> "Asked"]>>]}

SettingsFileInputs ==
  {[apprenticeId |-> 1, companyId |-> 1, mentorId |-> 1, stage |-> "REQUEST"]}

SettingsCaps ==
  [apprentices |-> 0, companies |-> 0, mentors |-> 0,
   files |-> Cardinality(SettingsFileInputs), documents |-> 0, uploads |-> 0,
   activities |-> MaxSettingsActivities, users |-> 0, comments |-> 0]

\* the pipeline configuration saved and read between stage transitions
NextSettings ==
  \/ CreateFile(SettingsCaps, SettingsFileInputs)
  \/ TransitionStage(SettingsCaps)
  \/ GetSettings
  \/ SavePipeline(PipelineBodies)

SpecSettings == InitWithoutKey /\ [][NextSettings]_vars

\* the settings page, from the five default steps
NextEditor ==
  \/ AddStep
  \/ RenameStep
  \/ RemoveStep
  \/ MoveStepUp
  \/ MoveStepDown

SpecEditor == InitWithoutKey /\ [][NextEditor]_vars

\* ------------------------------------------------------------------ claims
\* the Activity a handler appends for `fileId`
Logged(fileId, activityType) ==
  [id |-> currentActivityId, userId |-> 1, fileId |-> fileId,
   activityType |-> activityType, createdAt |-> now]

\* C1: every Case File's stage is one of the five pipeline stages, after any
\* sequence of create, update and stage-transition requests.
C1_StageInVocabulary ==
  \A id \in DOMAIN files : StageIncluded(files[id].stage)

C3_InvalidStageRejected ==
  [][(/\ Served("PUT /api/files/:id/stage")
      /\ ~StageIncluded(last'.stage))
     => (last'.status = 400 /\ UNCHANGED storeVars)]_vars

\* an unknown stage tag was sent for a file that exists
C3_Witness ==
  /\ last.op = "PUT /api/files/:id/stage"
  /\ last.stage = "RECEPTION"
  /\ last.fileId \in DOMAIN files
  /\ last.status = 400

\* C4: a transition to a valid stage of a file id that is not in the store
\* is answered 404, appends no Activity and changes no Case File.
C4_MissingFileNotFound ==
  [][(/\ Served("PUT /api/files/:id/stage")
      /\ StageIncluded(last'.stage)
      /\ last'.fileId # NaN
      /\ last'.fileId \notin DOMAIN files)
     => (last'.status = 404 /\ UNCHANGED storeVars)]_vars

\* a valid stage was sent for the id of a file that was deleted
C4_Witness ==
  /\ last.op = "PUT /api/files/:id/stage"
  /\ last.stage = "VALIDATED"
  /\ last.status = 404
  /\ last.fileId < currentFileId

\* a Mode A request that reached the OCR block
ModeAServed ==
  /\ Served("POST /api/documents")
  /\ last'.hasFile
  /\ last'.fileId \in DOMAIN files

\* the Apprentice the target Case File of the request links to
Linked(fileId) == files[fileId].apprenticeId

\* C5: a Mode A ingestion leaves every non-empty firstName, lastName,
\* birthDate and address of the linked Apprentice as it was, whatever the
\* extractor returned.
C5_PopulatedFieldsKept ==
  [][ModeAServed /\ Linked(last'.fileId) \in DOMAIN apprentices
     => \A f \in PersonFields :
          Truthy(apprentices[Linked(last'.fileId)][f])
            => apprentices'[Linked(last'.fileId)][f] = apprentices[Linked(last'.fileId)][f]]_vars

\* the extractor returned another first name and an address for an
\* Apprentice that had a first name and no address; only the address changed
C5_Witness ==
  /\ last.op = "POST /api/documents"
  /\ last.status = 201
  /\ last.ocr.success
  /\ last.ocr.data.firstName = "BOB"
  /\ last.ocr.data.address = "Other Address"
  /\ last.fileId \in DOMAIN files
  /\ files[last.fileId].apprenticeId \in DOMAIN apprentices
  /\ apprentices[files[last.fileId].apprenticeId].firstName = "Alice"
  /\ apprentices[files[last.fileId].apprenticeId].address = "Other Address"

\* two Mode A requests served one after the other, with the same extraction
\* result, for Case Files of the same Apprentice
SameExtractionTwice ==
  /\ last.op = "POST /api/documents"
  /\ last.status = 201
  /\ last.ocr.success /\ last.ocr.hasData
  /\ ModeAServed
  /\ last'.ocr = last.ocr
  /\ last.fileId \in DOMAIN files
  /\ Linked(last.fileId) = Linked(last'.fileId)

\* C6: applying the same extraction result to the same Apprentice in two
\* consecutive Mode A ingestions leaves the Apprentice after the second as
\* it was after the first, and the second appends no OCR_UPDATE Activity.
C6_SecondApplicationChangesNothing ==
  [][SameExtractionTwice
     => (/\ apprentices' = apprentices
         /\ \A i \in (Len(activities) + 1)..Len(activities') :
              activities'[i].activityType # "OCR_UPDATE")]_vars

\* the same extraction was applied twice and the first application had
\* filled a field of the Apprentice
C6_Witness ==
  /\ last.op = "POST /api/documents"
  /\ last.status = 201
  /\ last.ocr.success /\ last.ocr.hasData
  /\ Len(activities) >= 3
  /\ activities[Len(activities)].activityType = "DOCUMENT_UPLOAD"
  /\ activities[Len(activities) - 1].activityType = "DOCUMENT_UPLOAD"
  /\ activities[Len(activities) - 2].activityType = "OCR_UPDATE"
  /\ Cardinality(DOMAIN documents) = 2
  /\ \A d \in DOMAIN documents : documents[d].extractedData = Serialized(last.ocr.data)

\* a Mode A request for an identity document, with extraction requested and
\* a successful extraction
ExtractionSucceeded ==
  /\ ModeAServed
  /\ last'.type \in IdentityTypes
  /\ last'.extractData
  /\ last'.ocr.called /\ last'.ocr.success

\* the one Document a request added, for its Case File
OneDocumentAdded ==
  /\ DOMAIN documents' = DOMAIN documents \cup {currentDocumentId}
  /\ currentDocumentId \notin DOMAIN documents
  /\ \A d \in DOMAIN documents : documents'[d] = documents[d]
  /\ documents'[currentDocumentId].fileId = last'.fileId
  /\ last'.document = documents'[currentDocumentId]

\* C7: a Mode A ingestion of an identity document with a successful
\* extraction appends one OCR_UPDATE Activity if a field of the Apprentice
\* changed and none otherwise, and in both cases creates one Document for
\* the Case File and appends one DOCUMENT_UPLOAD Activity.
C7_OcrUpdateIffChanged ==
  [][ExtractionSucceeded
     => (/\ last'.status = 201
         /\ OneDocumentAdded
         /\ apprentices' # apprentices
              => activities' = Append(Append(activities, Logged(last'.fileId, "OCR_UPDATE")),
                                      [Logged(last'.fileId, "DOCUMENT_UPLOAD")
                                         EXCEPT !.id = currentActivityId + 1])
         /\ apprentices' = apprentices
              => activities' = Append(activities, Logged(last'.fileId, "DOCUMENT_UPLOAD")))]_vars

\* a successful extraction that changed no field: the Apprentice was fully
\* populated and the extractor returned four values
C7_Witness ==
  /\ last.op = "POST /api/documents"
  /\ last.status = 201
  /\ last.ocr.success
  /\ last.ocr.data.firstName = "BOB"
  /\ last.fileId \in DOMAIN files
  /\ files[last.fileId].apprenticeId \in DOMAIN apprentices
  /\ apprentices[files[last.fileId].apprenticeId].birthDate = "2000-01-01"
  /\ activities[Len(activities)].activityType = "DOCUMENT_UPLOAD"
  /\ \A i \in 1..Len(activities) : activities[i].activityType # "OCR_UPDATE"

\* a Mode A request for an identity document, with extraction requested,
\* whose extraction failed: no credentials, an exception, or an error result
ExtractionFailed ==
  /\ ModeAServed
  /\ last'.type \in IdentityTypes
  /\ last'.extractData
  /\ (~apiKey \/ last'.readThrew \/ (last'.ocr.called /\ ~last'.ocr.success))

\* C8: a Mode A ingestion on an existing Case File whose extraction fails
\* still succeeds: the Apprentice records are unchanged, no OCR_UPDATE is
\* appended, one Document is created and returned and one DOCUMENT_UPLOAD
\* Activity is appended.
C8_ExtractionFailureTolerated ==
  [][ExtractionFailed
     => (/\ last'.status = 201
         /\ apprentices' = apprentices
         /\ OneDocumentAdded
         /\ activities' = Append(activities, Logged(last'.fileId, "DOCUMENT_UPLOAD")))]_vars

\* the upload could not be read back, and the Document was stored with the
\* "not extracted" mark
C8_Witness ==
  /\ last.op = "POST /api/documents"
  /\ last.readThrew
  /\ last.status = 201
  /\ last.document.extractedData.tag = "not_extracted"
  /\ last.document.id \in DOMAIN documents

\* C9: a Mode A ingestion whose Case File id is not in the store is answered
\* 404 and has no side effect: no Document, no Activity, no Apprentice
\* change, no extraction call and no uploaded bytes left in storage.
C9_MissingFileNoSideEffects ==
  [][(/\ Served("POST /api/documents")
      /\ last'.hasFile
      /\ last'.fileId # NaN
      /\ last'.fileId \notin DOMAIN files)
     => (/\ last'.status = 404
         /\ ~last'.ocr.called
         /\ UNCHANGED <<apprentices, mentors, files, documents, activities>>
         /\ uploads' = uploads)]_vars

\* a Mode B upload whose extraction call failed
DirectExtractionFailed ==
  /\ Served("uploadDirectDocument")
  /\ (~apiKey \/ last'.readThrew \/ ~last'.ocr.success)

\* C10: a Mode B direct upload whose extraction call fails ends in an error
\* and creates no Document, no Case File and no Activity, and leaves the
\* Apprentice records unchanged.
C10_DirectUploadFailsWhole ==
  [][DirectExtractionFailed
     => (/\ last'.result = "error"
         /\ UNCHANGED <<apprentices, mentors, files, documents, activities,
                        currentApprenticeId, currentFileId, currentDocumentId,
                        currentActivityId>>)]_vars

\* the extraction service answered with an error for the upload of an
\* Apprentice that exists
C10_Witness ==
  /\ last.op = "uploadDirectDocument"
  /\ last.ocr.called /\ ~last.ocr.success
  /\ last.status = 500
  /\ last.result = "error"
  /\ last.apprenticeId \in DOMAIN apprentices

\* C11: a Mode B direct upload for an Apprentice that exists, whose
\* extraction call succeeded with data, completes: a Document is created for
\* a Case File of that Apprentice and the answer lists the Apprentice fields
\* that were filled.
C11_DirectUploadCompletes ==
  [][(/\ Served("uploadDirectDocument")
      /\ last'.apprenticeId \in DOMAIN apprentices
      /\ last'.ocr.called /\ last'.ocr.success /\ last'.ocr.hasData)
     => (/\ last'.result = "completed"
         /\ last'.document.id \in DOMAIN documents' \ DOMAIN documents
         /\ last'.document.fileId \in DOMAIN files'
         /\ files'[last'.document.fileId].apprenticeId = last'.apprenticeId
         /\ last'.updatedFields =
              {f \in PersonFields : apprentices'[last'.apprenticeId][f]
                                      # apprentices[last'.apprenticeId][f]})]_vars

\* the sum of the bucket counts of a stats answer
RECURSIVE SumOfBuckets(_, _)
SumOfBuckets(buckets, keys) ==
  IF keys = {} THEN 0
  ELSE LET k == CHOOSE k \in keys : TRUE
       IN buckets[k] + SumOfBuckets(buckets, keys \ {k})

\* C12: the per-stage counts of a stats answer sum to totalFiles, every Case
\* File is counted in the bucket of its stage and in no other, and every
\* bucket key is one of the five stage tags.
C12_BucketsPartitionFiles ==
  [][Served("GET /api/stats")
     => LET stats == last'.stats
        IN /\ stats.totalFiles = Cardinality(DOMAIN files)
           /\ SumOfBuckets(stats.filesByStage, DOMAIN stats.filesByStage) = stats.totalFiles
           /\ \A f \in DOMAIN files : files[f].stage \in DOMAIN stats.filesByStage
           /\ \A k \in DOMAIN stats.filesByStage :
                stats.filesByStage[k] = Cardinality({f \in DOMAIN files : files[f].stage = k})
           /\ \A k \in DOMAIN stats.filesByStage : StageIncluded(k)]_vars

\* the Case Files in stage VALIDATED
ValidatedIds == {f \in DOMAIN files : files[f].stage = "VALIDATED"}

\* the least number of whole days that covers the time between the creation
\* and the last update of a Case File
DaysCovering(f) ==
  LET ms == IF files[f].updatedAt >= files[f].createdAt
              THEN files[f].updatedAt - files[f].createdAt
              ELSE files[f].createdAt - files[f].updatedAt
  IN CHOOSE d \in 0..ms : d * DayMs >= ms /\ (d = 0 \/ (d - 1) * DayMs < ms)

RECURSIVE SumOfDays(_)
SumOfDays(ids) ==
  IF ids = {} THEN 0
  ELSE LET f == CHOOSE f \in ids : TRUE IN DaysCovering(f) + SumOfDays(ids \ {f})

C14_ActivityLogAppendOnly ==
  [][/\ Len(activities') >= Len(activities)
     /\ \A i \in 1..Len(activities) : activities'[i] = activities[i]]_vars

\* a Case File was created and deleted: both Activities are in the log and
\* the Case File they are about is gone
C14_Witness ==
  /\ last.op = "DELETE /api/files/:id"
  /\ last.status = 204
  /\ Len(activities) = 2
  /\ activities[1].activityType = "CREATE"
  /\ activities[2].activityType = "DELETE"
  /\ activities[1].fileId \notin DOMAIN files

\* C15: no Apprentice, Company, Mentor, Case File or Document record is
\* created, changed or deleted without the activity log growing: every
\* successful mutating request appends at least one Activity.
C15_EveryMutationLogged ==
  [][<<apprentices, companies, mentors, files, documents>>'
       # <<apprentices, companies, mentors, files, documents>>
     => Len(activities') > Len(activities)]_vars

\* C16: the updatedAt of a Case File never decreases, is never earlier than
\* its createdAt, and is the current time after every update of the Case
\* File, by PUT /api/files/:id or by a stage transition.
C16_UpdatedAtMonotone ==
  [][/\ \A f \in DOMAIN files \cap DOMAIN files' :
          files'[f].updatedAt >= files[f].updatedAt
     /\ \A f \in DOMAIN files' : files'[f].updatedAt >= files'[f].createdAt
     /\ (/\ Served("PUT /api/files/:id") \/ Served("PUT /api/files/:id/stage")
         /\ last'.status = 200)
          => (/\ last'.fileId \in DOMAIN files'
              /\ files'[last'.fileId].updatedAt = now
              /\ last'.file.updatedAt = now)]_vars

\* a field update served after the clock advanced
C16_Witness ==
  /\ last.op = "PUT /api/files/:id"
  /\ last.status = 200
  /\ last.fileId \in DOMAIN files
  /\ files[last.fileId].updatedAt = now
  /\ files[last.fileId].updatedAt > files[last.fileId].createdAt

\* a create of a step assigned the ids `assigned`, all fresh: none below the
\* counter of the kind before the step (below it lie the ids assigned so
\* far), all below the counter after it, which never goes back
FreshIds(assigned, counter, counterAfter) ==
  /\ counterAfter >= counter
  /\ \A id \in assigned : id >= counter /\ id < counterAfter

Dangling(fileId) ==
  \/ files[fileId].apprenticeId \notin DOMAIN apprentices
  \/ files[fileId].companyId \notin DOMAIN companies
  \/ files[fileId].mentorId \notin DOMAIN mentors

\* C18: the joined read of a Case File is answered not-found when the Case
\* File is absent or when its Apprentice, Company or Mentor reference does
\* not resolve, while the raw read of the same Case File answers with the
\* record as stored, dangling reference included.
C18_JoinedReadRejectsDangling ==
  [][/\ (/\ Served("GET /api/files/:id/details")
         /\ last'.fileId # NaN
         /\ (last'.fileId \notin DOMAIN files \/ Dangling(last'.fileId)))
          => (/\ last'.status = 404
              /\ last'.fileId \in DOMAIN files
                   => GetFileRoute(Store, last'.fileId)
                        = [status |-> 200, file |-> files[last'.fileId]])
     /\ (/\ Served("GET /api/files/:id")
         /\ last'.fileId \in DOMAIN files)
          => (last'.status = 200 /\ last'.file = files[last'.fileId])]_vars

\* the joined read of a Case File whose Apprentice and Company are in the
\* store and whose Mentor is not was answered not-found
C18_Witness ==
  /\ last.op = "GET /api/files/:id/details"
  /\ last.status = 404
  /\ last.fileId \in DOMAIN files
  /\ files[last.fileId].apprenticeId \in DOMAIN apprentices
  /\ files[last.fileId].companyId \in DOMAIN companies
  /\ files[last.fileId].mentorId \notin DOMAIN mentors

\* C19: the Document of a Mode A ingestion carries the serialized
\* extraction result when the extraction succeeded and, in every other case
\* (extraction not requested, type not eligible, extraction failed), the
\* "not extracted" mark with the time of the request.
C19_DocumentCarriesPayload ==
  [][(ModeAServed /\ last'.status = 201)
     => last'.document.extractedData =
          IF last'.ocr.called /\ last'.ocr.success /\ last'.ocr.hasData
            THEN Serialized(last'.ocr.data)
            ELSE NotExtracted]_vars

\* C20: in Mode A the extraction service is called only when extraction is
\* requested and the type is ID_CARD or PASSPORT; for any other type, or
\* when extraction is not requested, it is not called and no Apprentice
\* record changes.
C20_ExtractionOnlyForIdentityTypes ==
  [][ModeAServed
     => (/\ last'.ocr.called => (last'.extractData /\ last'.type \in IdentityTypes)
         /\ ~(last'.extractData /\ last'.type \in IdentityTypes)
              => (~last'.ocr.called /\ apprentices' = apprentices))]_vars

\* a contract was uploaded with extraction requested, with the key set, for
\* the Case File of an Apprentice that has blank fields: no call, no change
C20_Witness ==
  /\ last.op = "POST /api/documents"
  /\ last.status = 201
  /\ last.type = "CONTRACT"
  /\ last.extractData
  /\ apiKey
  /\ ~last.ocr.called
  /\ last.fileId \in DOMAIN files
  /\ files[last.fileId].apprenticeId \in DOMAIN apprentices
  /\ apprentices[files[last.fileId].apprenticeId].address = Null

\* `after` is `before` without the record `id`, which `before` held
RemovedExactly(before, after, id) ==
  /\ id \in DOMAIN before
  /\ DOMAIN after = DOMAIN before \ {id}
  /\ \A x \in DOMAIN after : after[x] = before[x]

ResumeServed == Served("POST /api/documents (extraction returned)")

\* C22: when the extraction call of a Mode A ingestion returns, every field
\* of the linked Apprentice that is populated at that time, by the creation
\* of the Apprentice, by an edit or by another ingestion served while the
\* call was in flight, keeps its value: the extracted value replaces none.
C22_NoLostUpdate ==
  [][(ResumeServed /\ last'.pending.file.apprenticeId \in DOMAIN apprentices)
     => \A f \in PersonFields :
          Truthy(apprentices[last'.pending.file.apprenticeId][f])
            => apprentices'[last'.pending.file.apprenticeId][f]
                 = apprentices[last'.pending.file.apprenticeId][f]]_vars

\* the address was blank when the extraction was called, an edit set it
\* while the call was in flight, and the extraction returned another address
C22_Witness ==
  /\ last.op = "POST /api/documents (extraction returned)"
  /\ last.status = 201
  /\ last.ocr.success
  /\ last.ocr.data.address = "Other Address"
  /\ last.pending.apprentice.address = Null
  /\ last.pending.file.apprenticeId \in DOMAIN apprentices
  /\ apprentices[last.pending.file.apprenticeId].address = "Edited Address"

\* C28: the Document a Mode A ingestion creates refers to a Case File that
\* is in the store when the Document record is created, also when the
\* record is created after the extraction call returned.
C28_DocumentRefersToStoredFile ==
  [][((ResumeServed \/ Served("POST /api/documents")) /\ last'.status = 201)
     => (/\ last'.document.id \in DOMAIN documents' \ DOMAIN documents
         /\ last'.document.fileId \in DOMAIN files)]_vars

\* C23: the PUT of a Mode B upload changes no field of the Apprentice that
\* is populated in the store when the request is served, also when the
\* store changed after the client fetched its list of Apprentices, and the
\* updatedFields a completed upload returns are the fields whose stored
\* value its PUT changed.
C23_DirectFillKeepsPopulated ==
  [][/\ (/\ Served("uploadDirectDocument: PUT /api/apprentices/:id")
         /\ last'.apprenticeId \in DOMAIN apprentices)
          => \A f \in PersonFields :
               Truthy(apprentices[last'.apprenticeId][f])
                 => apprentices'[last'.apprenticeId][f] = apprentices[last'.apprenticeId][f]
     /\ (/\ Served("uploadDirectDocument: POST /api/documents")
         /\ last'.result = "completed")
          => last'.updatedFields = last'.changed]_vars

\* the Case Files a Mode B upload created for Apprentice `a`: those with the
\* stage tag that only the direct upload sends
DirectFilesOf(a) ==
  {f \in DOMAIN files : files[f].apprenticeId = a /\ files[f].stage = "RECEPTION"}

\* C25: whatever Mode B uploads were run for an Apprentice, one after the
\* other or interleaved, with a fresh or a stale list of Case Files, at most
\* one Case File of the store was created by Mode B for that Apprentice.
C25_AtMostOneDirectFile ==
  \A a \in DOMAIN apprentices : Cardinality(DirectFilesOf(a)) <= 1

\* C24: /api/extract-id-card, given the id of an Apprentice or of a Mentor
\* of the store, leaves every populated field of that record as it was: an
\* extracted value goes only into a field that is empty.
C24_ExtractKeepsPopulated ==
  [][Served("POST /api/extract-id-card")
       => /\ \A a \in DOMAIN apprentices : \A f \in PersonFields :
               Truthy(apprentices[a][f]) => apprentices'[a][f] = apprentices[a][f]
          /\ \A m \in DOMAIN mentors : \A f \in PersonFields :
               Truthy(mentors[m][f]) => mentors'[m][f] = mentors[m][f]]_vars

\* the request named a numeric id
Numeric(id) == id # NaN

\* every collection of records except the Case Files, the Documents and the
\* Comments, and every id counter except the Activities'
RemoveFrame ==
  <<users, apprentices, companies, mentors, currentUserId, currentApprenticeId,
    currentCompanyId, currentMentorId, currentFileId, currentDocumentId, currentCommentId>>

\* C26: a DELETE of a Case File, a Document or a Comment whose id is not in
\* the store answers 404 and changes nothing, the activity log included; a
\* DELETE of one that is in the store answers 204, removes that record and
\* no other, and appends one Activity, of type DELETE, DOCUMENT_DELETE or
\* COMMENT_DELETE, that carries the id of the Case File deleted or of the
\* Case File the Document or the Comment belonged to.
C26_DeleteRemovesAndLogsOnce ==
  [][/\ (Served("DELETE /api/files/:id") /\ Numeric(last'.fileId))
          => IF last'.fileId \notin DOMAIN files
               THEN last'.status = 404 /\ UNCHANGED storeVars
             ELSE /\ last'.status = 204
                  /\ RemovedExactly(files, files', last'.fileId)
                  /\ activities' = Append(activities, Logged(last'.fileId, "DELETE"))
                  /\ UNCHANGED <<documents, comments, RemoveFrame>>
     /\ (Served("DELETE /api/documents/:id") /\ Numeric(last'.documentId))
          => IF last'.documentId \notin DOMAIN documents
               THEN last'.status = 404 /\ UNCHANGED storeVars
             ELSE /\ last'.status = 204
                  /\ RemovedExactly(documents, documents', last'.documentId)
                  /\ activities' = Append(activities,
                                          Logged(documents[last'.documentId].fileId,
                                                 "DOCUMENT_DELETE"))
                  /\ UNCHANGED <<files, comments, RemoveFrame>>
     /\ (Served("DELETE /api/comments/:id") /\ Numeric(last'.commentId))
          => IF last'.commentId \notin DOMAIN comments
               THEN last'.status = 404 /\ UNCHANGED storeVars
             ELSE /\ last'.status = 204
                  /\ RemovedExactly(comments, comments', last'.commentId)
                  /\ activities' = Append(activities,
                                          Logged(comments[last'.commentId].fileId,
                                                 "COMMENT_DELETE"))
                  /\ UNCHANGED <<files, documents, RemoveFrame>>]_vars

\* a Document of a Case File with another id than its own was deleted, and
\* the last Activity names that Case File
C26_Witness ==
  /\ last.op = "DELETE /api/documents/:id"
  /\ last.status = 204
  /\ last.documentId \notin DOMAIN documents
  /\ activities # <<>>
  /\ activities[Len(activities)].activityType = "DOCUMENT_DELETE"
  /\ activities[Len(activities)].fileId # last.documentId
  /\ activities[Len(activities)].fileId \in DOMAIN files

\* C27: in every state, the user of every Comment and of every Activity is
\* in the store, and the reads that join them with their users
\* (getFileDetails, getCommentsByFile, getActivities, getActivitiesByFile)
\* do not throw, for any Case File id.
C27_AuthorsAreStored ==
  /\ \A c \in DOMAIN comments : comments[c].userId \in DOMAIN users
  /\ \A i \in 1..Len(activities) : activities[i].userId \in DOMAIN users
  /\ ~getActivities(Store, 10).threw
  /\ \A fileId \in 1..JoinCaps.files :
       /\ ~getFileDetails(Store, fileId).threw
       /\ ~getCommentsByFile(Store, fileId).threw
       /\ ~getActivitiesByFile(Store, fileId).threw

\* the five fixed stage tags
FixedStages == {"REQUEST", "CREATED", "VERIFICATION", "PROCESSING", "VALIDATED"}

C30_StepsDistinct ==
  /\ Len(pipelineSteps) >= 2
  /\ \A i, j \in 1..Len(pipelineSteps) :
       i # j => /\ pipelineSteps[i].id # pipelineSteps[j].id
                /\ pipelineSteps[i].key # pipelineSteps[j].key
====
